---- MODULE Spec2Model ----
(***************************************************************************)
(* const-lru: ConstLru<K, V, CAP, I>, a constant-capacity LRU cache whose  *)
(* entries live in fixed slots 0..CAP-1 and are threaded through           *)
(*   - an intrusive doubly-linked recency list (nexts / prevs, head, tail) *)
(*     whose suffix past tail is the free list, and                        *)
(*   - an intrusive red-black tree keyed on K (root, lefts, rights,        *)
(*     parents, rb_colors).                                                *)
(* The cache is a record c; every method of src/src/lib.rs is an operator  *)
(* from the record before the call to the record after it.  A method whose *)
(* later statements read what earlier ones wrote is a chain of operators,  *)
(* one per run of statements, each taking the cache the previous one left. *)
(***************************************************************************)
EXTENDS Integers, Sequences, FiniteSets, TLC

(* ------------------------------ bounds -------------------------------- *)

\* largest CAP the cache is instantiated with (CAP ranges over 0..MaxCap)
MaxCap == 3

\* keys are ordered by an integer in 1..MaxKey
MaxKey == 4

\* keys that compare equal may still differ: the identities 0..MaxIdent of
\* the smallest key are told apart (Ord::cmp never looks at the identity)
MaxIdent == 1

\* values are 1..MaxVal
MaxVal == 2

\* the index type I and usize are unsigned integers of 1..MaxBits bits
MaxBits == 3

\* the longest array handed to try_from alone, long enough for two keys to
\* be duplicated
MaxEntries == 4

\* the red-black trees built by hand hold at most MaxNode nodes, slot i
\* holding the (i + 1)-th key
MaxNode == 7

(* --------------------------- keys and values -------------------------- *)

\* K: a key is <<ord, ident>>; only ord takes part in the comparison
Keys == ((1..MaxKey) \X {0}) \cup ({1} \X (0..MaxIdent))

Values == 1..MaxVal

\* MaybeUninit<K> / MaybeUninit<V>: a cell that holds no live key / value
UninitK == <<0, 0>>

UninitV == 0

\* <K as Ord>::cmp(a, b)
Cmp(a, b) ==
    IF a[1] = b[1] THEN "Equal"
    ELSE IF a[1] < b[1] THEN "Less" ELSE "Greater"

(* ------------------------- array access helpers ----------------------- *)

\* self.f[i] = v; an index outside the array is a panic (Rust bounds check)
Store(c, f, i, v) ==
    IF i \in DOMAIN c[f]
    THEN [c EXCEPT ![f][i] = v]
    ELSE [c EXCEPT !.panicked = TRUE]

(* ------------------------------ ConstLru ------------------------------ *)

\* init that starts tail at the sentinel, as it does head and root
init_tail_at_cap(cap) ==
    [ cap       |-> cap,
      rb_colors |-> [i \in 0..(cap - 1) |-> "Black"],
      len       |-> 0,
      root      |-> cap,
      head      |-> cap,
      tail      |-> cap,
      lefts     |-> [i \in 0..(cap - 1) |-> cap],
      rights    |-> [i \in 0..(cap - 1) |-> cap],
      parents   |-> [i \in 0..(cap - 1) |-> cap],
      nexts     |-> [i \in 0..(cap - 1) |-> i + 1],
      prevs     |-> [i \in 0..(cap - 1) |-> IF i = 0 THEN cap ELSE i - 1],
      keys      |-> [i \in 0..(cap - 1) |-> UninitK],
      values    |-> [i \in 0..(cap - 1) |-> UninitV],
      panicked  |-> FALSE ]

\* ConstLru::init on a fresh allocation, for the const generic CAP = cap
init(cap) ==
    [ cap       |-> cap,
      rb_colors |-> [i \in 0..(cap - 1) |-> "Black"],
      len       |-> 0,
      root      |-> cap,
      head      |-> cap,
      tail      |-> 0,
      lefts     |-> [i \in 0..(cap - 1) |-> cap],
      rights    |-> [i \in 0..(cap - 1) |-> cap],
      parents   |-> [i \in 0..(cap - 1) |-> cap],
      nexts     |-> [i \in 0..(cap - 1) |-> i + 1],
      prevs     |-> [i \in 0..(cap - 1) |-> IF i = 0 THEN cap ELSE i - 1],
      keys      |-> [i \in 0..(cap - 1) |-> UninitK],
      values    |-> [i \in 0..(cap - 1) |-> UninitV],
      panicked  |-> FALSE ]

is_empty(c) == c.len = 0

\* is_full off by one: reports full while one slot is still vacant
is_full_off_by_one(c) == c.len + 1 >= c.cap

is_full(c) == c.len = c.cap

\* ConstLru::len
len(c) == c.len

\* unlink_node, first half: index.next.prev = index.prev and
\* index.prev.next = index.next
unlink_node_links(c, index, next, prev) ==
    LET c1 == IF next # c.cap THEN Store(c, "prevs", next, prev) ELSE c
    IN IF prev # c.cap THEN Store(c1, "nexts", prev, next) ELSE c1

\* unlink_node, second half that forgets to move tail back when the tail is
\* unlinked
unlink_node_ends_keeps_tail(c, index, next, prev) ==
    LET is_one_elem_list == c.head = c.tail
    IN IF c.head = index /\ ~is_one_elem_list
       THEN [c EXCEPT !.head = next] ELSE c

\* unlink_node, second half: head and tail are patched unless the list has
\* one element
unlink_node_ends(c, index, next, prev) ==
    LET is_one_elem_list == c.head = c.tail
        c3 == IF c.head = index /\ ~is_one_elem_list
              THEN [c EXCEPT !.head = next] ELSE c
    IN IF c.tail = index /\ ~is_one_elem_list
       THEN [c3 EXCEPT !.tail = prev] ELSE c3

\* unlink_node(index)
unlink_node(c, index) ==
    unlink_node_ends(
        unlink_node_links(c, index, c.nexts[index], c.prevs[index]),
        index, c.nexts[index], c.prevs[index])

\* move_to_head after the unlink: splice index in front of the head
move_to_head_splice(c, index) ==
    LET head == c.head
        c2 == Store(c, "prevs", index, c.cap)
        c3 == Store(c2, "nexts", index, head)
        c4 == Store(c3, "prevs", head, index)
    IN [c4 EXCEPT !.head = index]

\* move_to_head that exchanges the contents of the slot and of the head slot
\* instead of relinking
move_to_head_swaps_slots(c, index) ==
    IF c.head = index THEN c
    ELSE [c EXCEPT !.keys = [@ EXCEPT ![index] = c.keys[c.head],
                                      ![c.head] = c.keys[index]],
                   !.values = [@ EXCEPT ![index] = c.values[c.head],
                                        ![c.head] = c.values[index]]]

\* move_to_head: no-op if index is the head, else unlink and splice at head
move_to_head(c, index) ==
    IF c.head = index THEN c
    ELSE move_to_head_splice(unlink_node(c, index), index)

(* --------------------------- red-black tree --------------------------- *)

get_rb_color(c, index) ==
    IF index = c.cap THEN "Black" ELSE c.rb_colors[index]

set_rb_color(c, index, new_color) == Store(c, "rb_colors", index, new_color)

\* insert_bst_node without the `node_index != self.cap()` test: hanging a nil
\* link writes parents[CAP]
insert_bst_node_no_nil_test(c, node_index, parent_index, parent_dir) ==
    LET c1 == Store(c, "parents", node_index, parent_index)
    IN IF parent_index = c.cap THEN [c1 EXCEPT !.root = node_index]
       ELSE IF parent_dir = "Left"
            THEN Store(c1, "lefts", parent_index, node_index)
            ELSE Store(c1, "rights", parent_index, node_index)

\* insert_bst_node(node_index, (parent_index, parent_dir))
insert_bst_node(c, node_index, parent_index, parent_dir) ==
    LET c1 == IF node_index # c.cap
              THEN Store(c, "parents", node_index, parent_index) ELSE c
    IN IF parent_index = c.cap THEN [c1 EXCEPT !.root = node_index]
       ELSE IF parent_dir = "Left"
            THEN Store(c1, "lefts", parent_index, node_index)
            ELSE Store(c1, "rights", parent_index, node_index)

RECURSIVE find_leftmost(_, _)
find_leftmost(c, node_index) ==
    LET left == c.lefts[node_index]
    IN IF left # c.cap THEN find_leftmost(c, left) ELSE node_index

find_in_order_successor_right_subtree(c, node_index) ==
    find_leftmost(c, c.rights[node_index])

\* unlink_bst_node_from_parent after self.parents[node_i] = CAP, parent
\* being the old parent: clear the parent's link to the node
unlink_bst_node_from(c, node_index, parent) ==
    IF parent = c.cap THEN [c |-> c, parent |-> parent, dir |-> "Left"]
    ELSE IF c.lefts[parent] = node_index
         THEN [c |-> Store(c, "lefts", parent, c.cap),
               parent |-> parent, dir |-> "Left"]
         ELSE [c |-> Store(c, "rights", parent, c.cap),
               parent |-> parent, dir |-> "Right"]

\* unlink_bst_node_from_parent: returns the cache after the call (c) and the
\* returned pair (parent, dir)
unlink_bst_node_from_parent(c, node_index) ==
    unlink_bst_node_from(Store(c, "parents", node_index, c.cap),
                         node_index, c.parents[node_index])

\* left_rotate after the three unlinks, u being what the unlink of index
\* returned: the three insert_bst_node calls
left_rotate_relink(u, index, right, left_of_right) ==
    LET c4 == insert_bst_node(u.c, right, u.parent, u.dir)
        c5 == insert_bst_node(c4, left_of_right, index, "Right")
    IN insert_bst_node(c5, index, right, "Left")

left_rotate(c, index) ==
    LET right == c.rights[index]
        left_of_right == c.lefts[right]
        c1 == IF left_of_right # c.cap
              THEN unlink_bst_node_from_parent(c, left_of_right).c ELSE c
        c2 == unlink_bst_node_from_parent(c1, right).c
    IN left_rotate_relink(unlink_bst_node_from_parent(c2, index),
                          index, right, left_of_right)

\* right_rotate after the three unlinks
right_rotate_relink(u, index, left, right_of_left) ==
    LET c4 == insert_bst_node(u.c, left, u.parent, u.dir)
        c5 == insert_bst_node(c4, right_of_left, index, "Left")
    IN insert_bst_node(c5, index, left, "Right")

right_rotate(c, index) ==
    LET left == c.lefts[index]
        right_of_left == c.rights[left]
        c1 == IF right_of_left # c.cap
              THEN unlink_bst_node_from_parent(c, right_of_left).c ELSE c
        c2 == unlink_bst_node_from_parent(c1, left).c
    IN right_rotate_relink(unlink_bst_node_from_parent(c2, index),
                           index, left, right_of_left)

left_right_rotate(c, index) ==
    right_rotate(left_rotate(c, c.lefts[index]), index)

right_left_rotate(c, index) ==
    left_rotate(right_rotate(c, c.rights[index]), index)

\* Option<I>::None of insert_rb_fixup, Option<(I, BstChild)>::None of
\* remove_rb_fixup
NoNode == -1

\* insert_rb_fixup: returns the cache (c) and the next node to examine (node)
insert_rb_fixup(c, node) ==
    IF node = c.root
    THEN [c |-> set_rb_color(c, node, "Black"), node |-> NoNode]
    ELSE
    LET parent == c.parents[node]
        parent_color == get_rb_color(c, parent)
        node_color == get_rb_color(c, node)
    IN IF ~(parent_color = "Red" /\ node_color = "Red")
       THEN [c |-> c, node |-> NoNode]
       ELSE
       LET parent_dir == IF c.lefts[parent] = node THEN "Left" ELSE "Right"
           grandparent == c.parents[parent]
           grandparent_dir ==
               IF c.lefts[grandparent] = parent THEN "Left" ELSE "Right"
           uncle == IF c.lefts[grandparent] = parent
                    THEN c.rights[grandparent] ELSE c.lefts[grandparent]
           uncle_color == get_rb_color(c, uncle)
           is_right_left_inner_grandchild ==
               grandparent_dir = "Right" /\ parent_dir = "Left"
           is_left_right_inner_grandchild ==
               grandparent_dir = "Left" /\ parent_dir = "Right"
           is_right_outer_grandchild ==
               grandparent_dir = "Right" /\ parent_dir = "Right"
       IN IF uncle_color = "Red"
          THEN \* case-1: parent & uncle red
               [c |-> set_rb_color(
                        set_rb_color(
                          set_rb_color(c, uncle, "Black"),
                          parent, "Black"),
                        grandparent, "Red"),
                node |-> grandparent]
          ELSE IF is_right_left_inner_grandchild
                  \/ is_left_right_inner_grandchild
          THEN \* case-2: inner grandchild
               [c |-> set_rb_color(
                        set_rb_color(
                          IF is_right_left_inner_grandchild
                          THEN right_left_rotate(c, grandparent)
                          ELSE left_right_rotate(c, grandparent),
                          node, "Black"),
                        grandparent, "Red"),
                node |-> NoNode]
          ELSE \* case-3: outer grandchild
               [c |-> set_rb_color(
                        set_rb_color(
                          IF is_right_outer_grandchild
                          THEN left_rotate(c, grandparent)
                          ELSE right_rotate(c, grandparent),
                          parent, "Black"),
                        grandparent, "Red"),
                node |-> NoNode]

RECURSIVE insert_rb_loop(_, _)

\* insert_rb, `node = self.insert_rb_fixup(n)` and the next turn of the loop
insert_rb_again(f) == insert_rb_loop(f.c, f.node)

\* the `while let Some(n) = node` loop of insert_rb
insert_rb_loop(c, node) ==
    IF node = NoNode THEN c
    ELSE insert_rb_again(insert_rb_fixup(c, node))

\* insert_rb that hangs the new node on the other side of its parent
insert_rb_wrong_side(c, node_index, parent_index, parent_dir) ==
    insert_rb_loop(
        set_rb_color(
            insert_bst_node(c, node_index, parent_index,
                            IF parent_dir = "Left" THEN "Right" ELSE "Left"),
            node_index, "Red"),
        node_index)

\* insert_rb(node_index, (parent_index, parent_dir))
insert_rb(c, node_index, parent_index, parent_dir) ==
    insert_rb_loop(
        set_rb_color(
            insert_bst_node(c, node_index, parent_index, parent_dir),
            node_index, "Red"),
        node_index)

\* remove_rbt_node, case-1: no children; u is what the unlink returned
remove_rbt_node_leaf(u, node_index, original_color) ==
    [c |-> IF node_index = u.c.root
           THEN [u.c EXCEPT !.root = u.c.cap] ELSE u.c,
     parent |-> u.parent, dir |-> u.dir, deleted_color |-> original_color]

\* remove_rbt_node, only 1 child: u is what the unlink of the node returned,
\* parent the node's parent on entry
remove_rbt_node_one(u, parent, replacement_index, original_color) ==
    [c |-> insert_bst_node(u.c, replacement_index, parent, u.dir),
     parent |-> u.parent, dir |-> u.dir, deleted_color |-> original_color]

\* remove_rbt_node, 2 children, the end: u5 is what the unlink of the node
\* returned; recolor the successor and put it in the node's place
remove_rbt_node_two_replace(u5, node_index, in_order_successor, parent, original_color, ios_parent, ios_parent_dir) ==
    [c |-> insert_bst_node(
             set_rb_color(u5.c, in_order_successor, original_color),
             in_order_successor, parent, u5.dir),
     parent |-> IF ios_parent = node_index
                THEN in_order_successor ELSE ios_parent,
     dir |-> IF ios_parent = node_index THEN "Right" ELSE ios_parent_dir,
     deleted_color |-> get_rb_color(u5.c, in_order_successor)]

\* remove_rbt_node, 2 children, c3 being the cache once the successor has the
\* node's left child: give it the node's right child, unlink the node
remove_rbt_node_two_right(c3, node_index, in_order_successor, parent, original_color, ios_parent, ios_parent_dir) ==
    remove_rbt_node_two_replace(
        unlink_bst_node_from_parent(
            insert_bst_node(c3, c3.rights[node_index],
                            in_order_successor, "Right"),
            node_index),
        node_index, in_order_successor, parent, original_color,
        ios_parent, ios_parent_dir)

\* remove_rbt_node, 2 children, u1 being what the unlink of the in-order
\* successor returned: replace the successor with its right child, give the
\* successor the node's left child
remove_rbt_node_two_left(u1, node_index, in_order_successor, parent, left, original_color) ==
    LET ios_right == u1.c.rights[in_order_successor]
        c2 == IF ios_right # u1.c.cap
              THEN insert_bst_node(
                     unlink_bst_node_from_parent(u1.c, ios_right).c,
                     ios_right, u1.parent, u1.dir)
              ELSE u1.c
    IN remove_rbt_node_two_right(
           insert_bst_node(c2, left, in_order_successor, "Left"),
           node_index, in_order_successor, parent, original_color,
           u1.parent, u1.dir)

\* remove_rbt_node, 2 children
remove_rbt_node_two(c, node_index, in_order_successor) ==
    remove_rbt_node_two_left(
        unlink_bst_node_from_parent(c, in_order_successor),
        node_index, in_order_successor, c.parents[node_index],
        c.lefts[node_index], get_rb_color(c, node_index))

\* remove_rbt_node, the end: clear the removed node's left, right, parent,
\* reset to black
remove_rbt_node_clear(r, node_index) ==
    [r EXCEPT !.c =
        set_rb_color(
            Store(Store(Store(r.c, "parents", node_index, r.c.cap),
                        "lefts", node_index, r.c.cap),
                  "rights", node_index, r.c.cap),
            node_index, "Black")]

\* remove_rbt_node: returns the cache (c), the lowest modified parent
\* (parent, dir) and deleted_color
remove_rbt_node(c, node_index) ==
    LET parent == c.parents[node_index]
        left == c.lefts[node_index]
        right == c.rights[node_index]
        original_color == get_rb_color(c, node_index)
    IN remove_rbt_node_clear(
           IF left = c.cap /\ right = c.cap
           THEN remove_rbt_node_leaf(
                    unlink_bst_node_from_parent(c, node_index),
                    node_index, original_color)
           ELSE IF left # c.cap /\ right # c.cap
           THEN remove_rbt_node_two(
                    c, node_index,
                    find_in_order_successor_right_subtree(c, node_index))
           ELSE remove_rbt_node_one(
                    unlink_bst_node_from_parent(c, node_index),
                    parent, IF left # c.cap THEN left ELSE right,
                    original_color),
           node_index)

\* remove_rb_fixup, the last case: the outer nephew is red; rotated says
\* that the inner-nephew rotation was made, so that the sibling is read anew
remove_rb_fixup_outer(c, parent, parent_dir, rotated, sibling1) ==
    LET sibling == IF rotated
                   THEN IF parent_dir = "Left"
                        THEN c.rights[parent] ELSE c.lefts[parent]
                   ELSE sibling1
        right_of_sibling == c.rights[sibling]
        left_of_sibling == c.lefts[sibling]
        c4 == set_rb_color(c, sibling, get_rb_color(c, parent))
        c5 == set_rb_color(c4, parent, "Black")
    IN [c |-> IF parent_dir = "Left"
              THEN left_rotate(set_rb_color(c5, right_of_sibling, "Black"),
                               parent)
              ELSE right_rotate(set_rb_color(c5, left_of_sibling, "Black"),
                                parent),
        parent |-> NoNode, dir |-> "Left"]

\* remove_rb_fixup from `case: black sibling with 2 black children` on;
\* was_red says that the red-sibling rotation was made, so that the sibling
\* is read anew
remove_rb_fixup_black_sibling(c, parent, parent_dir, was_red, sibling0) ==
    LET sibling == IF was_red
                   THEN IF parent_dir = "Left"
                        THEN c.rights[parent] ELSE c.lefts[parent]
                   ELSE sibling0
        right_of_sibling == c.rights[sibling]
        left_of_sibling == c.lefts[sibling]
    IN IF get_rb_color(c, right_of_sibling) = "Black"
          /\ get_rb_color(c, left_of_sibling) = "Black"
       THEN LET c2 == set_rb_color(c, sibling, "Red")
                grandparent == c2.parents[parent]
            IN IF get_rb_color(c2, parent) = "Red"
               THEN [c |-> set_rb_color(c2, parent, "Black"),
                     parent |-> NoNode, dir |-> "Left"]
               ELSE [c |-> c2,
                     parent |-> grandparent,
                     dir |-> IF grandparent = c2.cap
                                \/ c2.lefts[grandparent] = parent
                             THEN "Left" ELSE "Right"]
       ELSE \* case: black sibling with at least 1 red child
            IF parent_dir = "Left"
               /\ get_rb_color(c, right_of_sibling) = "Black"
            THEN remove_rb_fixup_outer(
                     right_rotate(
                         set_rb_color(
                             set_rb_color(c, left_of_sibling, "Black"),
                             sibling, "Red"),
                         sibling),
                     parent, parent_dir, TRUE, sibling)
            ELSE IF parent_dir = "Right"
                    /\ get_rb_color(c, left_of_sibling) = "Black"
            THEN remove_rb_fixup_outer(
                     left_rotate(
                         set_rb_color(
                             set_rb_color(c, right_of_sibling, "Black"),
                             sibling, "Red"),
                         sibling),
                     parent, parent_dir, TRUE, sibling)
            ELSE remove_rb_fixup_outer(c, parent, parent_dir, FALSE, sibling)

\* remove_rb_fixup((parent, parent_dir)): returns the cache (c) and the next
\* lowest modified parent (parent, dir), parent = NoNode for None
remove_rb_fixup(c, parent, parent_dir) ==
    IF parent = c.cap
    THEN [c |-> IF c.root # c.cap THEN set_rb_color(c, c.root, "Black") ELSE c,
          parent |-> NoNode, dir |-> "Left"]
    ELSE
    LET sibling == IF parent_dir = "Left"
                   THEN c.rights[parent] ELSE c.lefts[parent]
        replacement == IF parent_dir = "Left"
                       THEN c.lefts[parent] ELSE c.rights[parent]
        recolored == set_rb_color(set_rb_color(c, sibling, "Black"),
                                  parent, "Red")
    IN IF get_rb_color(c, replacement) = "Red"
       THEN [c |-> set_rb_color(c, replacement, "Black"),
             parent |-> NoNode, dir |-> "Left"]
       ELSE IF get_rb_color(c, sibling) = "Red"
       THEN \* case: red sibling -> recolor sibling and parent then rotate
            remove_rb_fixup_black_sibling(
                IF parent_dir = "Left"
                THEN left_rotate(recolored, parent)
                ELSE right_rotate(recolored, parent),
                parent, parent_dir, TRUE, sibling)
       ELSE remove_rb_fixup_black_sibling(c, parent, parent_dir, FALSE,
                                          sibling)

RECURSIVE remove_rb_loop(_, _, _)

\* remove_rb, `lowest_modified_parent = self.remove_rb_fixup(lmp)` and the
\* next turn of the loop
remove_rb_again(f) == remove_rb_loop(f.c, f.parent, f.dir)

\* the `while let Some(lmp) = lowest_modified_parent` loop of remove_rb
remove_rb_loop(c, parent, parent_dir) ==
    IF parent = NoNode THEN c
    ELSE remove_rb_again(remove_rb_fixup(c, parent, parent_dir))

\* remove_rb with a single remove_rb_fixup in place of the loop
remove_rb_repair_once(r) ==
    IF r.deleted_color = "Red" THEN r.c
    ELSE remove_rb_fixup(r.c, r.parent, r.dir).c

\* remove_rb after remove_rbt_node returned r
remove_rb_repair(r) ==
    IF r.deleted_color = "Red" THEN r.c
    ELSE remove_rb_loop(r.c, r.parent, r.dir)

\* remove_rb(node_index)
remove_rb(c, node_index) == remove_rb_repair(remove_rbt_node(c, node_index))

\* find_in_bst that descends to the wrong side (left for Less, right for
\* Greater) while still reporting the side to insert at as the source does
RECURSIVE find_in_bst_loop_wrong_turn(_, _, _)
find_in_bst_loop_wrong_turn(c, k, curr) ==
    LET ord == Cmp(c.keys[curr], k)
        next == IF ord = "Less" THEN c.lefts[curr] ELSE c.rights[curr]
        parent_dir == IF ord = "Less" THEN "Right" ELSE "Left"
    IN IF ord = "Equal" THEN [ok |-> TRUE, index |-> curr, dir |-> "Left"]
       ELSE IF next = c.cap
            THEN [ok |-> FALSE, index |-> curr, dir |-> parent_dir]
            ELSE find_in_bst_loop_wrong_turn(c, k, next)

\* the `loop` of find_in_bst, entered with curr
RECURSIVE find_in_bst_loop(_, _, _)
find_in_bst_loop(c, k, curr) ==
    LET ord == Cmp(c.keys[curr], k)
        next == IF ord = "Less" THEN c.rights[curr] ELSE c.lefts[curr]
        parent_dir == IF ord = "Less" THEN "Right" ELSE "Left"
    IN IF ord = "Equal" THEN [ok |-> TRUE, index |-> curr, dir |-> "Left"]
       ELSE IF next = c.cap
            THEN [ok |-> FALSE, index |-> curr, dir |-> parent_dir]
            ELSE find_in_bst_loop(c, k, next)

\* find_in_bst(k): Ok(index) is [ok |-> TRUE, index], Err((parent, dir)) is
\* [ok |-> FALSE, index |-> parent, dir]
find_in_bst(c, k) ==
    IF c.root = c.cap THEN [ok |-> FALSE, index |-> c.cap, dir |-> "Left"]
    ELSE find_in_bst_loop(c, k, c.root)

(* --------------------------- public methods --------------------------- *)

\* Option::None, Option::Some(v), InsertReplaced::OldValue(v) and
\* InsertReplaced::LruEvicted(k, v) as records of one shape
ResNone == [kind |-> "None", k |-> UninitK, v |-> UninitV]

ResSome(v) == [kind |-> "Some", k |-> UninitK, v |-> v]

OldValue(v) == [kind |-> "OldValue", k |-> UninitK, v |-> v]

LruEvicted(k, v) == [kind |-> "LruEvicted", k |-> k, v |-> v]

\* insert of an existing key that replaces the value but does not promote
insert_existing_no_promote(c, index, k, v) ==
    [c |-> Store(c, "values", index, v), res |-> OldValue(c.values[index])]

\* insert of an existing key that also overwrites the stored key
insert_existing_overwrites_key(c, index, k, v) ==
    [c |-> move_to_head(Store(Store(c, "values", index, v), "keys", index, k),
                        index),
     res |-> OldValue(c.values[index])]

\* insert, case-1: the key exists at index (the k passed in is dropped)
insert_existing(c, index, k, v) ==
    [c |-> move_to_head(Store(c, "values", index, v), index),
     res |-> OldValue(c.values[index])]

\* insert, case-2, the end: c is the cache with the new node in the tree
insert_evict_promote(c, res) ==
    [c |-> move_to_head(c, c.tail), res |-> res]

\* insert, case-2, after the write of k and v: recalc is the search result
\* computed after the removal of the tail from the tree
insert_evict_link(c, recalc, res) ==
    insert_evict_promote(insert_rb(c, c.tail, recalc.index, recalc.dir), res)

\* insert, case-2, c being the cache after self.remove_rb(self.tail), t the
\* slot read before it: search again, write k and v into slot t, insert
insert_evict_write(c, t, k, v, res) ==
    insert_evict_link(Store(Store(c, "keys", t, k), "values", t, v),
                      find_in_bst(c, k), res)

\* eviction that hands back the most recently used pair, not the pair it
\* moved out of the tail slot
insert_evict_reports_head(c, k, v) ==
    insert_evict_write(
        remove_rb(Store(Store(c, "keys", c.tail, UninitK),
                        "values", c.tail, UninitV),
                  c.tail),
        c.tail, k, v, LruEvicted(c.keys[c.head], c.values[c.head]))

\* insert, case-2: full, evict LRU; assume_init_read moves the key and the
\* value out of slot t
insert_evict(c, k, v) ==
    insert_evict_write(
        remove_rb(Store(Store(c, "keys", c.tail, UninitK),
                        "values", c.tail, UninitV),
                  c.tail),
        c.tail, k, v, LruEvicted(c.keys[c.tail], c.values[c.tail]))

\* allocation that does not count the new entry
insert_alloc_promote_keeps_len(c) ==
    [c |-> move_to_head(c, c.tail), res |-> ResNone]

\* insert, case-3, the end: promote the new node and count it
insert_alloc_promote(c) ==
    [c |-> [move_to_head(c, c.tail) EXCEPT !.len = @ + 1], res |-> ResNone]

\* insert, case-3, c being the cache once head is set: tail moves to the
\* free slot, k and v are written there and the node enters the tree
insert_alloc_at(c, free_index, k, v, parent_index, parent_dir) ==
    insert_alloc_promote(
        insert_rb(
            Store(Store([c EXCEPT !.tail = free_index],
                        "keys", free_index, k),
                  "values", free_index, v),
            free_index, parent_index, parent_dir))

\* insert, case-3, taking the second vacant slot when there is one
insert_alloc_skips_first_vacant(c, k, v, parent_index, parent_dir) ==
    insert_alloc_at(
        IF is_empty(c) THEN [c EXCEPT !.head = c.tail] ELSE c,
        IF is_empty(c) THEN c.tail
        ELSE IF c.nexts[c.nexts[c.tail]] < c.cap
        THEN c.nexts[c.nexts[c.tail]]
        ELSE c.nexts[c.tail],
        k, v, parent_index, parent_dir)

\* insert, case-3: alloc new node; (parent_index, parent_dir) is the Err of
\* the search made on entry
insert_alloc(c, k, v, parent_index, parent_dir) ==
    insert_alloc_at(
        IF is_empty(c) THEN [c EXCEPT !.head = c.tail] ELSE c,
        IF is_empty(c) THEN c.tail ELSE c.nexts[c.tail],
        k, v, parent_index, parent_dir)

\* insert after the search on entry returned f
insert_searched(c, k, v, f) ==
    IF f.ok THEN insert_existing(c, f.index, k, v)
    ELSE IF is_full(c) THEN insert_evict(c, k, v)
    ELSE insert_alloc(c, k, v, f.index, f.dir)

\* insert without the CAP == 0 return: with no slot the cache counts as full
\* and the eviction indexes keys[tail] out of range, a panic
insert_no_zero_cap_return(c, k, v) ==
    IF c.cap = 0 THEN [c |-> [c EXCEPT !.panicked = TRUE], res |-> ResNone]
    ELSE insert_searched(c, k, v, find_in_bst(c, k))

\* ConstLru::insert(k, v): returns the cache (c) and the returned value (res)
insert(c, k, v) ==
    IF c.cap = 0 THEN [c |-> c, res |-> ResNone]
    ELSE insert_searched(c, k, v, find_in_bst(c, k))

\* remove, c being the cache after unlink_node(index): make index the first
\* slot of the free list, right after tail
\* the splice that leaves prevs of the old first free slot as it was
remove_splice_forgets_prev(c, index) ==
    LET t == c.tail
        first_free == c.nexts[t]
        c3 == Store(c, "nexts", index, first_free)
        c4 == Store(c3, "prevs", index, t)
    IN Store(c4, "nexts", t, index)

remove_splice(c, index) ==
    LET t == c.tail
        first_free == c.nexts[t]
        c2 == IF first_free < c.cap
              THEN Store(c, "prevs", first_free, index) ELSE c
        c3 == Store(c2, "nexts", index, first_free)
        c4 == Store(c3, "prevs", index, t)
    IN Store(c4, "nexts", t, index)

\* remove, after the key was found at index: move the slot to the front of
\* the free list unless it is the only entry
remove_relink(c, index) ==
    IF c.len > 1 THEN remove_splice(unlink_node(c, index), index) ELSE c

\* remove that does not destruct the key in the slot
remove_found_leaks_key(c, i) ==
    [c |-> [remove_rb(remove_relink(Store(c, "values", i, UninitV), i), i)
            EXCEPT !.len = @ - 1],
     res |-> ResSome(c.values[i])]

\* remove that resets head to CAP when it empties the cache
remove_found_resets_head(c, i) ==
    [c |-> [remove_rb(
              remove_relink(
                Store(Store(c, "keys", i, UninitK), "values", i, UninitV), i),
              i)
            EXCEPT !.len = @ - 1,
                   !.head = IF c.len = 1 THEN c.cap ELSE @],
     res |-> ResSome(c.values[i])]

\* remove that forgets to decrement len
remove_found_keeps_len(c, i) ==
    [c |-> remove_rb(
             remove_relink(
               Store(Store(c, "keys", i, UninitK), "values", i, UninitV), i),
             i),
     res |-> ResSome(c.values[i])]

\* remove, the key was found in slot i: the key is dropped in place, the
\* value is moved out
remove_found(c, i) ==
    [c |-> [remove_rb(
              remove_relink(
                Store(Store(c, "keys", i, UninitK), "values", i, UninitV), i),
              i)
            EXCEPT !.len = @ - 1],
     res |-> ResSome(c.values[i])]

\* remove after the search returned f
remove_searched(c, f) ==
    IF ~f.ok THEN [c |-> c, res |-> ResNone] ELSE remove_found(c, f.index)

\* ConstLru::remove(k)
remove(c, k) == remove_searched(c, find_in_bst(c, k))

\* get that does not promote the entry it found
get_searched_no_promote(c, f) ==
    IF ~f.ok THEN [c |-> c, res |-> ResNone, index |-> c.cap]
    ELSE [c |-> c, res |-> ResSome(c.values[f.index]), index |-> f.index]

\* get after the search returned f: promote, return a reference to the value
\* cell; index is the slot of that cell, res the value in it
get_searched(c, f) ==
    IF ~f.ok THEN [c |-> c, res |-> ResNone, index |-> c.cap]
    ELSE [c |-> move_to_head(c, f.index),
          res |-> ResSome(c.values[f.index]), index |-> f.index]

\* ConstLru::get(k)
get(c, k) == get_searched(c, find_in_bst(c, k))

\* get_mut that, on a miss, promotes the last node the search visited
get_mut_searched_promotes_on_miss(c, f) ==
    IF ~f.ok
    THEN [c |-> IF f.index = c.cap THEN c ELSE move_to_head(c, f.index),
          res |-> ResNone, index |-> c.cap]
    ELSE [c |-> move_to_head(c, f.index),
          res |-> ResSome(c.values[f.index]), index |-> f.index]

\* get_mut after the search returned f
get_mut_searched(c, f) ==
    IF ~f.ok THEN [c |-> c, res |-> ResNone, index |-> c.cap]
    ELSE [c |-> move_to_head(c, f.index),
          res |-> ResSome(c.values[f.index]), index |-> f.index]

\* ConstLru::get_mut(k)
get_mut(c, k) == get_mut_searched(c, find_in_bst(c, k))

\* get_untouched after the search returned f
get_untouched_searched(c, f) ==
    IF ~f.ok THEN [c |-> c, res |-> ResNone, index |-> c.cap]
    ELSE [c |-> c, res |-> ResSome(c.values[f.index]), index |-> f.index]

\* ConstLru::get_untouched(k)
get_untouched(c, k) == get_untouched_searched(c, find_in_bst(c, k))

\* get_mut_untouched that promotes like get_mut
get_mut_untouched_searched_promotes(c, f) ==
    IF ~f.ok THEN [c |-> c, res |-> ResNone, index |-> c.cap]
    ELSE [c |-> move_to_head(c, f.index),
          res |-> ResSome(c.values[f.index]), index |-> f.index]

\* get_mut_untouched after the search returned f
get_mut_untouched_searched(c, f) ==
    IF ~f.ok THEN [c |-> c, res |-> ResNone, index |-> c.cap]
    ELSE [c |-> c, res |-> ResSome(c.values[f.index]), index |-> f.index]

\* ConstLru::get_mut_untouched(k)
get_mut_untouched(c, k) == get_mut_untouched_searched(c, find_in_bst(c, k))

\* `*r = w` through the &mut V a get_mut / get_mut_untouched returned
write_through(g, w) ==
    IF g.res.kind = "Some" THEN Store(g.c, "values", g.index, w) ELSE g.c

(* ------------------------- recency iteration -------------------------- *)

\* cursors whose back end is the tail slot itself in a cache that is not full
cursors_new_ends_at_tail(c) ==
    IF is_empty(c) THEN [from_head |-> 0, from_tail |-> 0]
    ELSE IF is_full(c) THEN [from_head |-> c.head, from_tail |-> c.cap]
    ELSE [from_head |-> c.head, from_tail |-> c.tail]

\* DoubleEndedIterCursors::new
cursors_new(c) ==
    IF is_empty(c) THEN [from_head |-> 0, from_tail |-> 0]
    ELSE IF is_full(c) THEN [from_head |-> c.head, from_tail |-> c.cap]
    ELSE [from_head |-> c.head, from_tail |-> c.nexts[c.tail]]

\* Iter::next repeated until it returns None: the slots yielded, in order
RECURSIVE iter_rest(_, _)
iter_rest(c, cursors) ==
    IF cursors.from_head = cursors.from_tail THEN <<>>
    ELSE <<cursors.from_head>>
         \o iter_rest(c, [cursors EXCEPT
                             !.from_head = c.nexts[cursors.from_head]])

\* c.iter() collected: the slots from most to least recently used
iter_slots(c) == iter_rest(c, cursors_new(c))

\* DoubleEndedIterCursors::advance_from_head
advance_from_head(cursors, c) ==
    [cursors EXCEPT !.from_head = c.nexts[cursors.from_head]]

\* DoubleEndedIterCursors::retreat_from_tail
retreat_from_tail(cursors, c) ==
    [cursors EXCEPT !.from_tail = IF cursors.from_tail = c.cap
                                  THEN c.tail
                                  ELSE c.prevs[cursors.from_tail]]

\* DoubleEndedIterCursors::has_ended
has_ended(cursors) == cursors.from_head = cursors.from_tail

\* what next / next_back return: None, Some of the key and value cells of
\* slot i, or a panic on the bounds check of keys[i]; a cell that holds no
\* live key or value shows as UninitK / UninitV
YieldNone == [kind |-> "None", slot |-> 0, k |-> UninitK, v |-> UninitV]

\* the iterators' get_entry / get_entry_mut: self.const_lru.keys[i] and
\* self.const_lru.values[i]
get_entry(c, i) ==
    IF i \in DOMAIN c.keys
    THEN [kind |-> "Some", slot |-> i, k |-> c.keys[i], v |-> c.values[i]]
    ELSE [kind |-> "Panic", slot |-> i, k |-> UninitK, v |-> UninitV]

\* Iter::new, IterMut::new, IntoIter::new: an iterator is its cursors and
\* the cache it borrows or owns
iter_new(c) == [cursors |-> cursors_new(c), const_lru |-> c]

\* Iter::next: returns the iterator after the call (t) and the item (res)
iter_next(t) ==
    IF has_ended(t.cursors) THEN [t |-> t, res |-> YieldNone]
    ELSE [t |-> [t EXCEPT !.cursors = advance_from_head(@, t.const_lru)],
          res |-> get_entry(t.const_lru, t.cursors.from_head)]

\* Iter::next_back
iter_next_back(t) ==
    IF has_ended(t.cursors) THEN [t |-> t, res |-> YieldNone]
    ELSE [t |-> [t EXCEPT !.cursors = retreat_from_tail(@, t.const_lru)],
          res |-> get_entry(t.const_lru, t.cursors.from_tail)]

\* IterMut::next
iter_mut_next(t) ==
    IF has_ended(t.cursors) THEN [t |-> t, res |-> YieldNone]
    ELSE [t |-> [t EXCEPT !.cursors = advance_from_head(@, t.const_lru)],
          res |-> get_entry(t.const_lru, t.cursors.from_head)]

\* IterMut::next_back
iter_mut_next_back(t) ==
    IF has_ended(t.cursors) THEN [t |-> t, res |-> YieldNone]
    ELSE [t |-> [t EXCEPT !.cursors = retreat_from_tail(@, t.const_lru)],
          res |-> get_entry(t.const_lru, t.cursors.from_tail)]

\* IntoIter::get_entry: assume_init_read moves the key and the value out of
\* slot i, whose cells hold nothing live afterwards
into_iter_get_entry(t, i) ==
    [t |-> IF i \in DOMAIN t.const_lru.keys
           THEN [t EXCEPT !.const_lru.keys[i] = UninitK,
                          !.const_lru.values[i] = UninitV]
           ELSE t,
     res |-> get_entry(t.const_lru, i)]

\* IntoIter::next after the cursor moved: truncate the cache at head, then
\* move the entry of slot i out
into_iter_next_truncate(t, i) ==
    into_iter_get_entry(
        [t EXCEPT !.const_lru.head = t.cursors.from_head,
                  !.const_lru.len = @ - 1],
        i)

\* IntoIter::next
into_iter_next(t) ==
    IF has_ended(t.cursors) THEN [t |-> t, res |-> YieldNone]
    ELSE into_iter_next_truncate(
             [t EXCEPT !.cursors = advance_from_head(@, t.const_lru)],
             t.cursors.from_head)

\* IntoIter::next_back after the cursor moved: truncate the cache at tail,
\* then move the entry of slot i out
into_iter_next_back_truncate(t, i) ==
    into_iter_get_entry(
        [t EXCEPT !.const_lru.tail = t.cursors.from_tail,
                  !.const_lru.len = @ - 1],
        i)

\* IntoIter::next_back
into_iter_next_back(t) ==
    IF has_ended(t.cursors) THEN [t |-> t, res |-> YieldNone]
    ELSE into_iter_next_back_truncate(
             [t EXCEPT !.cursors = retreat_from_tail(@, t.const_lru)],
             t.cursors.from_tail)

\* IterMaybeUninit::next repeated until it returns None: the slots whose
\* cells it hands out, in order
RECURSIVE iter_maybe_uninit_rest(_, _)
iter_maybe_uninit_rest(c, cursors) ==
    IF has_ended(cursors) THEN <<>>
    ELSE <<cursors.from_head>>
         \o iter_maybe_uninit_rest(c, advance_from_head(cursors, c))

\* <ConstLru as Drop>::drop: the slots whose key and value it destructs
\* with assume_init_drop, in order
drop(c) == iter_maybe_uninit_rest(c, cursors_new(c))

(* ------------------------- key-order iteration ------------------------ *)

\* ConstLru::bs_index, the field iter_key_order.rs reads: the occupied slots
\* by ascending key, position 0 first
bs_index(c) ==
    CHOOSE f \in [0..(c.len - 1) -> {i \in DOMAIN c.keys : c.keys[i] # UninitK}] :
        \A a, b \in DOMAIN f : a < b => Cmp(c.keys[f[a]], c.keys[f[b]]) = "Less"

\* IterKeyOrder::new
iter_key_order_new(c) ==
    [from_smallest_bsi |-> 0, from_largest_bsi |-> len(c), const_lru |-> c]

\* IterKeyOrder::has_ended
iter_key_order_has_ended(t) == t.from_smallest_bsi = t.from_largest_bsi

\* IterKeyOrder::get_entry
iter_key_order_get_entry(t, bs_i) ==
    get_entry(t.const_lru, bs_index(t.const_lru)[bs_i])

\* IterKeyOrder::next: consume then increment
iter_key_order_next(t) ==
    IF iter_key_order_has_ended(t) THEN [t |-> t, res |-> YieldNone]
    ELSE [t |-> [t EXCEPT !.from_smallest_bsi = @ + 1],
          res |-> iter_key_order_get_entry(t, t.from_smallest_bsi)]

\* IterKeyOrder::next_back: decrement then consume
iter_key_order_next_back(t) ==
    IF iter_key_order_has_ended(t) THEN [t |-> t, res |-> YieldNone]
    ELSE [t |-> [t EXCEPT !.from_largest_bsi = @ - 1],
          res |-> iter_key_order_get_entry(t, t.from_largest_bsi - 1)]

\* InOrderTraverser::from_largest; a traverser is (current, state), state
\* "Panic" once a step indexed a link array out of range
from_largest(c) == [current |-> c.cap, state |-> "Right"]

\* InOrderTraverser::from_smallest
from_smallest(c) ==
    IF c.root = c.cap THEN from_largest(c)
    ELSE [current |-> find_leftmost(c, c.root), state |-> "Left"]

\* a step of a traverser that panicked on a bounds check
TraverserPanic(tr) == [tr EXCEPT !.state = "Panic"]

\* a traverser step that never descends into the right subtree
traverser_next_skips_right(tr, c) ==
    IF tr.state = "Left" THEN [tr EXCEPT !.state = "This"]
    ELSE IF tr.current \notin DOMAIN c.rights THEN TraverserPanic(tr)
    ELSE IF tr.state = "This" THEN [tr EXCEPT !.state = "Right"]
    ELSE LET parent == c.parents[tr.current]
         IN [current |-> parent,
             state |-> IF parent # c.cap
                       THEN IF c.lefts[parent] = tr.current
                            THEN "Left" ELSE "Right"
                       ELSE tr.state]

\* InOrderTraverser::next
traverser_next(tr, c) ==
    IF tr.state = "Left" THEN [tr EXCEPT !.state = "This"]
    ELSE IF tr.current \notin DOMAIN c.rights THEN TraverserPanic(tr)
    ELSE IF tr.state = "This"
    THEN IF c.rights[tr.current] = c.cap
         THEN [tr EXCEPT !.state = "Right"]
         ELSE [current |-> find_leftmost(c, c.rights[tr.current]),
               state |-> "Left"]
    ELSE LET parent == c.parents[tr.current]
         IN [current |-> parent,
             state |-> IF parent # c.cap
                       THEN IF c.lefts[parent] = tr.current
                            THEN "Left" ELSE "Right"
                       ELSE tr.state]

\* the `while` loop of find_in_order_predecessor_ancestor: the condition
\* reads self.rights[parent] before it compares parent with CAP
RECURSIVE find_in_order_predecessor_ancestor_loop(_, _, _)
find_in_order_predecessor_ancestor_loop(c, curr, parent) ==
    IF parent \notin DOMAIN c.rights THEN [panic |-> TRUE, index |-> parent]
    ELSE IF c.rights[parent] # curr /\ parent # c.cap
    THEN find_in_order_predecessor_ancestor_loop(c, parent, c.parents[parent])
    ELSE [panic |-> FALSE, index |-> parent]

\* find_in_order_predecessor_ancestor: the returned index, or a panic
find_in_order_predecessor_ancestor(c, node_index) ==
    find_in_order_predecessor_ancestor_loop(c, node_index,
                                            c.parents[node_index])

\* InOrderTraverser::prev, state Left, no left child: p is what
\* find_in_order_predecessor_ancestor returned
traverser_prev_to_ancestor(tr, p) ==
    IF p.panic THEN TraverserPanic(tr)
    ELSE [current |-> p.index, state |-> "This"]

\* InOrderTraverser::prev
traverser_prev(tr, c) ==
    IF tr.state = "This" THEN [tr EXCEPT !.state = "Left"]
    ELSE IF tr.state = "Right" /\ tr.current = c.cap
    THEN [tr EXCEPT !.current = c.root]
    ELSE IF tr.current \notin DOMAIN c.rights THEN TraverserPanic(tr)
    ELSE IF tr.state = "Right"
    THEN IF c.rights[tr.current] = c.cap
         THEN [tr EXCEPT !.state = "This"]
         ELSE [tr EXCEPT !.current = c.rights[tr.current]]
    ELSE IF c.lefts[tr.current] = c.cap
    THEN traverser_prev_to_ancestor(
             tr, find_in_order_predecessor_ancestor(c, tr.current))
    ELSE [current |-> c.lefts[tr.current], state |-> "Right"]

\* DoubleEndedInOrderTraverser::new
traverser_new(c) ==
    [from_smallest |-> from_smallest(c), from_largest |-> from_largest(c)]

\* DoubleEndedInOrderTraverser::has_ended
traverser_has_ended(tv) == tv.from_smallest = tv.from_largest

\* DoubleEndedInOrderTraverser::advance_from_smallest
advance_from_smallest(tv, c) ==
    [tv EXCEPT !.from_smallest = traverser_next(@, c)]

\* DoubleEndedInOrderTraverser::retreat_from_largest
retreat_from_largest(tv, c) ==
    [tv EXCEPT !.from_largest = traverser_prev(@, c)]

\* IterKeyOrderMut::new
iter_key_order_mut_new(c) == [traverser |-> traverser_new(c), const_lru |-> c]

\* IterKeyOrderMut::next, the `while` loop: advance until the state is Left
\* or the traversal has ended
RECURSIVE iter_key_order_mut_next_loop(_, _)
iter_key_order_mut_next_loop(tv, c) ==
    IF tv.from_smallest.state = "Left"
       \/ tv.from_smallest.state = "Panic"
       \/ traverser_has_ended(tv)
    THEN tv
    ELSE iter_key_order_mut_next_loop(advance_from_smallest(tv, c), c)

\* IterKeyOrderMut::next after get_entry_mut returned y
iter_key_order_mut_next_advance(t, y) ==
    IF y.kind = "Panic" THEN [t |-> t, res |-> y]
    ELSE [t |-> [t EXCEPT !.traverser =
                     iter_key_order_mut_next_loop(
                         advance_from_smallest(@, t.const_lru), t.const_lru)],
          res |-> y]

\* a call that panicked inside a traverser step returns nothing
PanicIfTraverser(r) ==
    IF r.t.traverser.from_smallest.state = "Panic"
       \/ r.t.traverser.from_largest.state = "Panic"
    THEN [r EXCEPT !.res.kind = "Panic"]
    ELSE r

\* IterKeyOrderMut::next
iter_key_order_mut_next(t) ==
    IF traverser_has_ended(t.traverser) THEN [t |-> t, res |-> YieldNone]
    ELSE PanicIfTraverser(
             iter_key_order_mut_next_advance(
                 t, get_entry(t.const_lru, t.traverser.from_smallest.current)))

\* IterKeyOrderMut::next_back, the `while` loop: retreat until the state is
\* This; ended says that has_ended() held and None is returned
RECURSIVE iter_key_order_mut_next_back_loop(_, _)
iter_key_order_mut_next_back_loop(tv, c) ==
    IF tv.from_largest.state = "This" \/ tv.from_largest.state = "Panic"
    THEN [tv |-> tv, ended |-> FALSE]
    ELSE IF traverser_has_ended(tv) THEN [tv |-> tv, ended |-> TRUE]
    ELSE iter_key_order_mut_next_back_loop(retreat_from_largest(tv, c), c)

\* IterKeyOrderMut::next_back after the loop left w
iter_key_order_mut_next_back_consume(t, w) ==
    IF w.ended THEN [t |-> [t EXCEPT !.traverser = w.tv], res |-> YieldNone]
    ELSE IF w.tv.from_largest.state = "Panic"
    THEN [t |-> [t EXCEPT !.traverser = w.tv],
          res |-> [YieldNone EXCEPT !.kind = "Panic"]]
    ELSE PanicIfTraverser(
             [t |-> [t EXCEPT !.traverser =
                         retreat_from_largest(w.tv, t.const_lru)],
              res |-> get_entry(t.const_lru, w.tv.from_largest.current)])

\* IterKeyOrderMut::next_back
iter_key_order_mut_next_back(t) ==
    iter_key_order_mut_next_back_consume(
        t, iter_key_order_mut_next_back_loop(t.traverser, t.const_lru))

(* ---------------------------- construction --------------------------- *)

\* <I as NumCast>::from(x) for the index type whose largest value is i_max,
\* and I::to_usize for a usize whose largest value is i_max: None unless x
\* is representable
NumCast(x, i_max) == IF x <= i_max THEN x ELSE NoNode

\* the numbers init converts to I with I::from(..).unwrap(): CAP, i + 1 for
\* nexts[i] and i - 1 for prevs[i]
InitCasts(cap) ==
    {cap} \cup {i + 1 : i \in 0..(cap - 1)} \cup {i - 1 : i \in 1..(cap - 1)}

\* new() that also refuses CAP == I::MAX
new_refuses_cap_at_max(cap, i_max, usize_max) ==
    IF NumCast(i_max, usize_max) = NoNode
    THEN [panic |-> "I::MAX > usize::MAX", c |-> init(0)]
    ELSE IF cap >= i_max THEN [panic |-> "CAP > I::MAX", c |-> init(0)]
    ELSE [panic |-> "none", c |-> init(cap)]

\* ConstLru::new / init_at_alloc / init for the const generic CAP = cap, an
\* index type I with I::MAX = i_max and usize::MAX = usize_max: the panic
\* it ends in ("none": it returns) and the cache it returns
new(cap, i_max, usize_max) ==
    IF NumCast(i_max, usize_max) = NoNode
    THEN [panic |-> "I::MAX > usize::MAX", c |-> init(0)]
    ELSE IF cap > i_max THEN [panic |-> "CAP > I::MAX", c |-> init(0)]
    ELSE IF \E x \in InitCasts(cap) : NumCast(x, i_max) = NoNode
    THEN [panic |-> "unwrap", c |-> init(0)]
    ELSE [panic |-> "none", c |-> init(cap)]

\* try_from, before the entries are written: Self::new() with len, head and
\* tail of a full cache
try_from_init(cap) ==
    [init(cap) EXCEPT !.len = cap,
                      !.head = 0,
                      !.tail = IF cap > 0 THEN cap - 1 ELSE 0]

\* try_from that writes the entries back to front
try_from_write_reversed(c, entries) ==
    [c EXCEPT !.keys = [i \in 0..(c.cap - 1) |-> entries[c.cap - i][1]],
              !.values = [i \in 0..(c.cap - 1) |-> entries[c.cap - i][2]]]

\* try_from: write all keys and values in first
try_from_write(c, entries) ==
    [c EXCEPT !.keys = [i \in 0..(c.cap - 1) |-> entries[i + 1][1]],
              !.values = [i \in 0..(c.cap - 1) |-> entries[i + 1][2]]]

\* duplicate found that hands back the key of slot 0
try_from_duplicate_reports_first(c, existing) ==
    [ok |-> FALSE, err |-> c.keys[0], dropped_value |-> c.values[existing],
     c |-> [unlink_node(c, existing)
                EXCEPT !.len = @ - 1,
                       !.keys[existing] = UninitK,
                       !.values[existing] = UninitV]]

\* duplicate found that leaves the slot in the recency list
try_from_duplicate_keeps_link(c, existing) ==
    [ok |-> FALSE, err |-> c.keys[existing],
     dropped_value |-> c.values[existing],
     c |-> [c EXCEPT !.len = @ - 1,
                     !.keys[existing] = UninitK,
                     !.values[existing] = UninitV]]

\* try_from, the key of the slot being linked is already in the tree at
\* existing: unlink that slot, destruct its value, move its key out into
\* DuplicateKeysError (err); c is the cache that is then dropped
try_from_duplicate(c, existing) ==
    [ok |-> FALSE, err |-> c.keys[existing],
     dropped_value |-> c.values[existing],
     c |-> [unlink_node(c, existing)
                EXCEPT !.len = @ - 1,
                       !.keys[existing] = UninitK,
                       !.values[existing] = UninitV]]

RECURSIVE try_from_build(_, _)

\* try_from that hands back the key of the slot being linked
try_from_found_reports_later(c, i, f) ==
    IF f.ok
    THEN [try_from_duplicate(c, f.index) EXCEPT !.err = c.keys[i]]
    ELSE try_from_build(insert_rb(c, i, f.index, f.dir), i + 1)

\* try_from, slot i, after find_in_bst of its key returned f
try_from_found(c, i, f) ==
    IF f.ok THEN try_from_duplicate(c, f.index)
    ELSE try_from_build(insert_rb(c, i, f.index, f.dir), i + 1)

\* try_from: build the bst element-by-element, from slot i on
try_from_build(c, i) ==
    IF i = c.cap
    THEN [ok |-> TRUE, err |-> UninitK, dropped_value |-> UninitV, c |-> c]
    ELSE try_from_found(c, i, find_in_bst(c, c.keys[i]))

\* try_from returns r: on Err the cache res goes out of scope and its
\* destructor runs over the slots destructed
try_from_return(r) ==
    [ok |-> r.ok, err |-> r.err, dropped_value |-> r.dropped_value, c |-> r.c,
     destructed |-> IF r.ok THEN <<>> ELSE drop(r.c)]

\* <ConstLru as TryFrom<[(K, V); CAP]>>::try_from(entries), CAP being the
\* length of entries
try_from(entries) ==
    try_from_return(
        try_from_build(try_from_write(try_from_init(Len(entries)), entries),
                       0))

(* ------------------------------ entry API ----------------------------- *)

\* the occupied slots of c whose key compares as ord to k
KeyedSlots(c, k, ord) ==
    {i \in DOMAIN c.keys : c.keys[i] # UninitK /\ Cmp(c.keys[i], k) = ord}

\* ConstLru::get_index_of(k): Ok((index, bs_i)) with the slot and the rank
\* of the key, or Err(bs_i) with the rank at which it would be inserted
get_index_of(c, k) ==
    IF KeyedSlots(c, k, "Equal") # {}
    THEN [ok |-> TRUE, index |-> CHOOSE i \in KeyedSlots(c, k, "Equal") : TRUE,
          bs_i |-> Cardinality(KeyedSlots(c, k, "Less"))]
    ELSE [ok |-> FALSE, index |-> c.cap,
          bs_i |-> Cardinality(KeyedSlots(c, k, "Less"))]

\* ConstLru::get_by_index / get_mut_by_index: the value cell of slot index
get_by_index(c, index) == c.values[index]

\* ConstLru::insert_replace_value(index, v): replace in place, return the
\* old value
insert_replace_value(c, index, v) ==
    [c |-> Store(c, "values", index, v), res |-> c.values[index]]

\* insert_evict_lru, r being the cache and the evicted pair after the tail
\* slot was reused for (k, v) and promoted: the slot is the new head
insert_evict_lru_at(r) ==
    [c |-> r.c, index |-> r.c.head, old_k |-> r.res.k, old_v |-> r.res.v]

\* ConstLru::insert_evict_lru(bs_i, k, v): the full cache evicts the least
\* recently used entry, stores (k, v) in its slot, puts the key into the
\* key index and promotes the slot; returns the slot and the evicted pair
insert_evict_lru(c, bs_i, k, v) == insert_evict_lru_at(insert_evict(c, k, v))

\* insert_alloc_new, r being the cache after the first vacant slot took
\* (k, v) and was promoted: the slot is the new head
insert_alloc_new_at(r) == [c |-> r.c, index |-> r.c.head]

\* insert_alloc_new, f being the place of k in the key index
insert_alloc_new_found(c, k, v, f) ==
    insert_alloc_new_at(insert_alloc(c, k, v, f.index, f.dir))

\* ConstLru::insert_alloc_new(bs_i, k, v): the cache that is not full
\* stores (k, v) in its first vacant slot, puts the key into the key index,
\* counts and promotes the slot; returns the slot
insert_alloc_new(c, bs_i, k, v) ==
    insert_alloc_new_found(c, k, v, find_in_bst(c, k))

\* remove_by_index, r being the cache and the value after slot index left
\* the recency list and the key index, k the key read from the slot
remove_by_index_moved(r, k) == [c |-> r.c, k |-> k, v |-> r.res.v]

\* ConstLru::remove_by_index((index, bs_i)): the key and the value are moved
\* out of the slot, which leaves the recency list and the key index
remove_by_index(c, index, bs_i) ==
    remove_by_index_moved(remove_found(c, index), c.keys[index])

\* an Entry: the variant, the key moved in, and the slot and rank from
\* get_index_of (the cache it borrows is passed to its methods)
EntryOf(kind, key, index, bs_i) ==
    [kind |-> kind, key |-> key, index |-> index, bs_i |-> bs_i]

\* Entry::new after get_index_of returned g
entry_new_found(c, k, g) ==
    IF g.ok THEN EntryOf("Occupied", k, g.index, g.bs_i)
    ELSE EntryOf("Vacant", k, c.cap, g.bs_i)

\* Entry::new without the CAP == 0 panic
entry_new_no_cap_check(c, k) == entry_new_found(c, k, get_index_of(c, k))

\* Entry::new (ConstLru::entry): panics if CAP == 0
entry_new(c, k) ==
    IF c.cap = 0 THEN EntryOf("Panic", k, c.cap, 0)
    ELSE entry_new_found(c, k, get_index_of(c, k))

\* what a method of an entry returns: the cache, the slot of the value cell
\* referred to (CAP: none), the value in it or moved out, and the pair moved
\* out with it, if any
EntryRes(c, index, v, opt) == [c |-> c, index |-> index, v |-> v, opt |-> opt]

\* VacantEntry::insert, after insert_evict_lru returned r
vacant_insert_evicted(r) ==
    EntryRes(r.c, r.index, get_by_index(r.c, r.index),
             LruEvicted(r.old_k, r.old_v))

\* VacantEntry::insert, after insert_alloc_new returned r
vacant_insert_allocated(r) ==
    EntryRes(r.c, r.index, get_by_index(r.c, r.index), ResNone)

\* VacantEntry::insert that does not hand back the evicted pair
vacant_insert_drops_evicted(c, e, v) ==
    IF is_full(c)
    THEN vacant_insert_allocated(insert_evict_lru(c, e.bs_i, e.key, v))
    ELSE vacant_insert_allocated(insert_alloc_new(c, e.bs_i, e.key, v))

\* VacantEntry::insert(v)
vacant_insert(c, e, v) ==
    IF is_full(c)
    THEN vacant_insert_evicted(insert_evict_lru(c, e.bs_i, e.key, v))
    ELSE vacant_insert_allocated(insert_alloc_new(c, e.bs_i, e.key, v))

\* OccupiedEntry::get that does not promote
occupied_get_no_promote(c, e) ==
    EntryRes(c, e.index, get_by_index(c, e.index), ResNone)

\* OccupiedEntry::get
occupied_get(c, e) ==
    EntryRes(move_to_head(c, e.index), e.index, get_by_index(c, e.index),
             ResNone)

\* OccupiedEntry::get_untouched
occupied_get_untouched(c, e) ==
    EntryRes(c, e.index, get_by_index(c, e.index), ResNone)

\* OccupiedEntry::get_mut
occupied_get_mut(c, e) ==
    EntryRes(move_to_head(c, e.index), e.index, get_by_index(c, e.index),
             ResNone)

\* OccupiedEntry::get_mut_untouched
occupied_get_mut_untouched(c, e) ==
    EntryRes(c, e.index, get_by_index(c, e.index), ResNone)

\* OccupiedEntry::insert that returns the value it was given
occupied_insert_returns_new(c, e, v) ==
    EntryRes(insert_replace_value(c, e.index, v).c, c.cap, v, ResNone)

\* OccupiedEntry::insert(v): returns the old value
occupied_insert(c, e, v) ==
    EntryRes(insert_replace_value(c, e.index, v).c, c.cap,
             insert_replace_value(c, e.index, v).res, ResNone)

\* OccupiedEntry::into_mut
occupied_into_mut(c, e) ==
    EntryRes(move_to_head(c, e.index), e.index, get_by_index(c, e.index),
             ResNone)

\* OccupiedEntry::into_mut_untouched
occupied_into_mut_untouched(c, e) ==
    EntryRes(c, e.index, get_by_index(c, e.index), ResNone)

\* OccupiedEntry::remove that hands back the value and leaves the entry
occupied_remove_keeps_entry(c, e) ==
    EntryRes(c, c.cap, get_by_index(c, e.index), ResNone)

\* OccupiedEntry::remove, after remove_by_index returned r: the .1 of the
\* pair, the key is dropped
occupied_remove_second(r, cap) == EntryRes(r.c, cap, r.v, ResNone)

\* OccupiedEntry::remove
occupied_remove(c, e) ==
    occupied_remove_second(remove_by_index(c, e.index, e.bs_i), c.cap)

\* OccupiedEntry::remove_entry, after remove_by_index returned r: the pair
occupied_remove_entry_pair(r, cap) ==
    EntryRes(r.c, cap, r.v, [kind |-> "Pair", k |-> r.k, v |-> r.v])

\* OccupiedEntry::remove_entry
occupied_remove_entry(c, e) ==
    occupied_remove_entry_pair(remove_by_index(c, e.index, e.bs_i), c.cap)

\* Entry::or_insert that stores the default over an existing value
or_insert_overwrites(c, e, default) ==
    IF e.kind = "Occupied"
    THEN EntryRes(insert_replace_value(move_to_head(c, e.index),
                                       e.index, default).c,
                  e.index, default, ResNone)
    ELSE [vacant_insert(c, e, default) EXCEPT !.opt = ResNone]

\* Entry::or_insert(default): the .0 of VacantEntry::insert drops the
\* evicted pair
or_insert(c, e, default) ==
    IF e.kind = "Occupied" THEN occupied_into_mut(c, e)
    ELSE [vacant_insert(c, e, default) EXCEPT !.opt = ResNone]

\* Entry::or_insert_with(default): default() is called only when vacant
or_insert_with(c, e, default) ==
    IF e.kind = "Occupied" THEN occupied_into_mut(c, e)
    ELSE [vacant_insert(c, e, default) EXCEPT !.opt = ResNone]

\* Entry::or_insert_with_key(default): default(e.key()) is called only when
\* vacant; by_key is the function the caller passes
or_insert_with_key(c, e, by_key) ==
    IF e.kind = "Occupied" THEN occupied_into_mut(c, e)
    ELSE [vacant_insert(c, e, by_key[e.key]) EXCEPT !.opt = ResNone]

\* V::default() of the value type
DefaultValue == 1

\* Entry::or_default
or_default(c, e) == or_insert(c, e, DefaultValue)

(* -------------------------------- clone ------------------------------- *)

\* IterIndexed::next that reads the index after next() moved the cursor
iter_indexed_next_reads_late(t) ==
    [t |-> iter_next(t).t, res |-> iter_next(t).res,
     i |-> iter_next(t).t.cursors.from_head]

\* IterIndexed::next: the index is read out first, next() moves the cursor
iter_indexed_next(t) ==
    [t |-> iter_next(t).t, res |-> iter_next(t).res,
     i |-> t.cursors.from_head]

\* clone, the struct literal: the links, the tree, the colours and len are
\* copied, the key and value cells start uninitialised; no clone() of a key
\* or value was called yet
clone_init(c) ==
    [c |-> [c EXCEPT !.keys = [i \in DOMAIN c.keys |-> UninitK],
                     !.values = [i \in DOMAIN c.values |-> UninitV]],
     cloned |-> <<>>, ub |-> FALSE, panic |-> FALSE]

\* clone, the body of the loop for the item (i, k, v): k.clone() and
\* v.clone() are written to the cells of slot i; cloning a cell that holds
\* no live key or value is undefined
clone_write(r, i, k, v) ==
    [c |-> Store(Store(r.c, "keys", i, k), "values", i, v),
     cloned |-> Append(r.cloned, i),
     ub |-> r.ub \/ k = UninitK \/ v = UninitV,
     panic |-> r.panic \/ i \notin DOMAIN r.c.keys]

RECURSIVE clone_loop(_, _)

\* clone, the loop after IterIndexed::next returned n
clone_item(r, n) ==
    IF n.res.kind = "None" THEN r
    ELSE IF n.res.kind = "Panic" THEN [r EXCEPT !.panic = TRUE]
    ELSE clone_loop(clone_write(r, n.i, n.res.k, n.res.v), n.t)

\* clone, the loop over IterIndexed::new(self)
clone_loop(r, t) == clone_item(r, iter_indexed_next(t))

\* <ConstLru as Clone>::clone
clone(c) == clone_loop(clone_init(c), iter_new(c))

\* the slots in order[0..len]
OrderSlots(c) == [r \in 1..c.len |-> bs_index(c)[r - 1]]

\* ConstLru::clone_to_alloc(ptr): the structure at ptr is initialised field
\* by field, the index arrays by block copies; the entries of the occupied
\* slots are cloned into the same slots
clone_to_alloc(c) ==
    [c |-> [c EXCEPT
              !.keys = [i \in DOMAIN c.keys |->
                          IF \E r \in 1..c.len : OrderSlots(c)[r] = i
                          THEN c.keys[i] ELSE UninitK],
              !.values = [i \in DOMAIN c.values |->
                            IF \E r \in 1..c.len : OrderSlots(c)[r] = i
                            THEN c.values[i] ELSE UninitV]],
     cloned |-> OrderSlots(c), ub |-> FALSE, panic |-> FALSE]

(* -------------------------------- clear ------------------------------- *)

\* clear that overwrites the cache without dropping the old one
clear_forgets_drop(c) == [c |-> init(c.cap), destructed |-> <<>>]

\* ConstLru::clear: `*self = Self::new()` drops the old cache, whose drop
\* destructs the slots listed, and leaves a new one in its place
clear(c) == [c |-> init(c.cap), destructed |-> drop(c)]

(* ---------------------------- state machine --------------------------- *)

\* lru:      the ConstLru value
\* last:     the call whose returned value or reference the caller still
\*           holds: its name (op), arguments (k, v), returned value (res),
\*           the cache before the call (pre) and the least recently promoted
\*           key before the call (lrp); op = "idle" once the caller let go
\* amap:     the key-to-value map the calls so far describe, per key order
\* promo:    the keys present, most recently promoted first
\* inserted: while only insert has been called, the distinct keys inserted,
\*           most recently inserted first; Stopped afterwards
\* it:       the iterator over lru that is alive, NoIter if there is none
\* made:     the latest construction with an explicit index type I, by
\*           new() or try_from(entries): its arguments and what it returned
VARIABLES lru, last, amap, promo, inserted, it, made

vars == <<lru, last, amap, promo, inserted, it, made>>

\* no iterator borrows or owns the cache
NoIter == [kind |-> "none"]

\* nothing was constructed with an explicit index type yet
NotMade == [op |-> "none"]

Stopped == <<0>>

\* s without o
Without(s, o) == SelectSeq(s, LAMBDA x : x # o)

\* s with o moved (or added) to the front
ToFront(s, o) == <<o>> \o Without(s, o)

\* the last element of s, 0 if there is none
LastOr0(s) == IF Len(s) = 0 THEN 0 ELSE s[Len(s)]

\* no call is outstanding: the single owner may make the next call
NoCall == [op |-> "idle", k |-> UninitK, v |-> UninitV, res |-> ResNone,
           pre |-> init(0), lrp |-> 0]

Idle == last.op = "idle" /\ it = NoIter

Call(op, k, v, res) ==
    [op |-> op, k |-> k, v |-> v, res |-> res, pre |-> lru,
     lrp |-> LastOr0(promo)]

\* the key-to-value map after a write of w to key order o, if o is in it
Written(o, w) == IF amap[o] # UninitV THEN [amap EXCEPT ![o] = w] ELSE amap

\* the promotion order after a lookup of key order o that promotes
Promoted(o) == IF amap[o] # UninitV THEN ToFront(promo, o) ELSE promo

Init ==
    \E cap \in 0..MaxCap :
        /\ lru = init(cap)
        /\ last = NoCall
        /\ amap = [o \in 1..MaxKey |-> UninitV]
        /\ promo = <<>>
        /\ inserted = <<>>
        /\ it = NoIter
        /\ made = NotMade

\* insert(k, v) returned r
Inserted(k, v, r) ==
    /\ lru' = r.c
    /\ last' = Call("insert", k, v, r.res)
    /\ amap' = IF lru.cap = 0 THEN amap
               ELSE IF r.res.kind = "LruEvicted"
               THEN [amap EXCEPT ![r.res.k[1]] = UninitV, ![k[1]] = v]
               ELSE [amap EXCEPT ![k[1]] = v]
    /\ promo' = IF lru.cap = 0 THEN promo
                ELSE IF r.res.kind = "LruEvicted"
                THEN ToFront(Without(promo, r.res.k[1]), k[1])
                ELSE ToFront(promo, k[1])
    /\ inserted' = IF inserted = Stopped THEN Stopped
                   ELSE ToFront(inserted, k[1])
    /\ UNCHANGED <<it, made>>

Insert ==
    /\ Idle
    /\ \E k \in Keys, v \in Values : Inserted(k, v, insert(lru, k, v))

\* a lookup op(k) returned g; the caller writes w through the reference if
\* the method gave a mutable one (w = UninitV: no write)
LookedUp(op, k, w, g) ==
    /\ lru' = IF w = UninitV THEN g.c ELSE write_through(g, w)
    /\ last' = Call(op, k, w, g.res)
    /\ amap' = IF w = UninitV THEN amap ELSE Written(k[1], w)
    /\ promo' = IF op \in {"get", "get_mut"} THEN Promoted(k[1]) ELSE promo
    /\ inserted' = Stopped
    /\ UNCHANGED <<it, made>>

Get ==
    /\ Idle
    /\ \E k \in Keys : LookedUp("get", k, UninitV, get(lru, k))

GetMut ==
    /\ Idle
    /\ \E k \in Keys, w \in Values :
          LookedUp("get_mut", k, w, get_mut(lru, k))

GetUntouched ==
    /\ Idle
    /\ \E k \in Keys :
          LookedUp("get_untouched", k, UninitV, get_untouched(lru, k))

GetMutUntouched ==
    /\ Idle
    /\ \E k \in Keys, w \in Values :
          LookedUp("get_mut_untouched", k, w, get_mut_untouched(lru, k))

\* remove(k) returned r
Removed(k, r) ==
    /\ lru' = r.c
    /\ last' = Call("remove", k, UninitV, r.res)
    /\ amap' = [amap EXCEPT ![k[1]] = UninitV]
    /\ promo' = Without(promo, k[1])
    /\ inserted' = Stopped
    /\ UNCHANGED <<it, made>>

Remove ==
    /\ Idle
    /\ \E k \in Keys : Removed(k, remove(lru, k))

\* the caller drops the value or reference the last call returned; the
\* borrow of the cache ends and the next call may be made
Release ==
    /\ last.op # "idle"
    /\ it = NoIter
    /\ last' = NoCall
    /\ UNCHANGED <<lru, amap, promo, inserted, it, made>>

Next ==
    \/ Insert
    \/ Get
    \/ GetMut
    \/ GetUntouched
    \/ GetMutUntouched
    \/ Remove
    \/ Release

Spec == Init /\ [][Next]_vars

(* ------------------------------ iterators ----------------------------- *)

\* iter(), iter_mut() and into_iter()
IterKinds == {"iter", "iter_mut", "into_iter"}

\* kind's next and next_back on the iterator t
IterCall(kind, op, t) ==
    CASE kind = "iter" /\ op = "next" -> iter_next(t)
      [] kind = "iter" /\ op = "next_back" -> iter_next_back(t)
      [] kind = "iter_mut" /\ op = "next" -> iter_mut_next(t)
      [] kind = "iter_mut" /\ op = "next_back" -> iter_mut_next_back(t)
      [] kind = "into_iter" /\ op = "next" -> into_iter_next(t)
      [] kind = "into_iter" /\ op = "next_back" -> into_iter_next_back(t)

\* the item the caller receives for the result y of next or next_back: the
\* key and the value read from the slot; reading a cell that holds nothing
\* live is undefined behaviour and gives any key (gk) or value (gv)
Received(y, gk, gv) ==
    [kind |-> y.kind, slot |-> y.slot,
     k |-> IF y.kind = "Some" /\ y.k = UninitK THEN gk ELSE y.k,
     v |-> IF y.kind = "Some" /\ y.v = UninitV THEN gv ELSE y.v,
     vacant |-> y.kind = "Some" /\ (y.k = UninitK \/ y.v = UninitV)]

\* the iterator it after op returned r.res and left the iterator r.t: the
\* items received from the front and from the back are recorded in order,
\* a panic ends the use of the iterator
Stepped(op, r, y) ==
    [it EXCEPT !.cursors = r.t.cursors,
               !.const_lru = r.t.const_lru,
               !.via = op,
               !.res = y,
               !.front = IF op = "next" /\ y.kind = "Some"
                         THEN Append(@, y) ELSE @,
               !.back = IF op = "next_back" /\ y.kind = "Some"
                        THEN Append(@, y) ELSE @,
               !.panicked = y.kind = "Panic"]

\* lru.iter(), lru.iter_mut() or lru.into_iter(): the cache is borrowed, or
\* moved into the iterator, until the iterator is dropped
IterNew ==
    /\ Idle
    /\ \E kind \in IterKinds :
          it' = [kind |-> kind,
                 cursors |-> iter_new(lru).cursors,
                 const_lru |-> iter_new(lru).const_lru,
                 via |-> "new", res |-> Received(YieldNone, UninitK, UninitV),
                 front |-> <<>>, back |-> <<>>, panicked |-> FALSE]
    /\ UNCHANGED <<lru, last, amap, promo, inserted, made>>

\* the keys and the values a read of the cells of y can give
ReadableKeys(y) == IF y.kind = "Some" /\ y.k = UninitK THEN Keys ELSE {y.k}

ReadableValues(y) ==
    IF y.kind = "Some" /\ y.v = UninitV THEN Values ELSE {y.v}

\* the iterator's next or next_back returned r
IterStepped(op, r) ==
    /\ \E gk \in ReadableKeys(r.res), gv \in ReadableValues(r.res) :
          it' = Stepped(op, r, Received(r.res, gk, gv))
    /\ UNCHANGED <<lru, last, amap, promo, inserted, made>>

IterNext ==
    /\ it.kind \in IterKinds
    /\ ~it.panicked
    /\ IterStepped("next",
                   IterCall(it.kind, "next",
                            [cursors |-> it.cursors,
                             const_lru |-> it.const_lru]))

IterNextBack ==
    /\ it.kind \in IterKinds
    /\ ~it.panicked
    /\ IterStepped("next_back",
                   IterCall(it.kind, "next_back",
                            [cursors |-> it.cursors,
                             const_lru |-> it.const_lru]))

\* the iterator is dropped, by the caller or by the unwinding of a panic: a
\* borrow ends; the cache an IntoIter owns is dropped with it
IterDrop ==
    /\ it.kind \in IterKinds
    /\ it' = IF it.kind = "into_iter"
             THEN [kind |-> "dropped", of |-> it, const_lru |-> it.const_lru,
                   destructed |-> drop(it.const_lru)]
             ELSE NoIter
    /\ UNCHANGED <<lru, last, amap, promo, inserted, made>>

\* the owner drops the cache
DropCache ==
    /\ Idle
    /\ it' = [kind |-> "dropped", of |-> NoIter, const_lru |-> lru,
              destructed |-> drop(lru)]
    /\ UNCHANGED <<lru, last, amap, promo, inserted, made>>

NextIter ==
    \/ Next
    \/ IterNew
    \/ IterNext
    \/ IterNextBack
    \/ IterDrop
    \/ DropCache

SpecIter == Init /\ [][NextIter]_vars

(* ---------------------------- construction --------------------------- *)

\* the largest values of the unsigned types of 1..MaxBits bits
IntMaxes == {2 ^ b - 1 : b \in 1..MaxBits}

\* ConstLru::<K, V, CAP, I>::new() for some CAP, I and usize
New ==
    /\ made = NotMade
    /\ \E usize_max \in IntMaxes, i_max \in IntMaxes :
          \E cap \in 0..usize_max :
             made' = [op |-> "new", cap |-> cap, i_max |-> i_max,
                      usize_max |-> usize_max,
                      res |-> new(cap, i_max, usize_max)]
    /\ UNCHANGED <<lru, last, amap, promo, inserted, it>>

\* ConstLru::try_from(entries) for some array of CAP pairs
TryFrom ==
    /\ made = NotMade
    /\ \E cap \in 0..MaxCap :
          \E entries \in [1..cap -> Keys \X Values] :
             made' = [op |-> "try_from", entries |-> entries,
                      res |-> try_from(entries)]
    /\ UNCHANGED <<lru, last, amap, promo, inserted, it>>

NextBuild ==
    \/ New
    \/ TryFrom

SpecBuild == Init /\ [][NextBuild]_vars

\* ConstLru::try_from(entries) for some array of more than MaxCap pairs
TryFromLong ==
    /\ made = NotMade
    /\ \E cap \in (MaxCap + 1)..MaxEntries :
          \E entries \in [1..cap -> Keys \X Values] :
             made' = [op |-> "try_from", entries |-> entries,
                      res |-> try_from(entries)]
    /\ UNCHANGED <<lru, last, amap, promo, inserted, it>>

NextBuildLong ==
    \/ NextBuild
    \/ TryFromLong

SpecBuildLong == Init /\ [][NextBuildLong]_vars

(* ------------------------- borrowing iterators ------------------------ *)

\* the iterators that borrow the cache
BorrowKinds == {"iter", "iter_mut", "iter_key_order", "iter_key_order_mut"}

\* the iterators that hand out mutable references to the values
MutKinds == {"iter_mut", "iter_key_order_mut"}

\* lru.iter(), lru.iter_mut(), lru.iter_key_order() and
\* lru.iter_key_order_mut(): the cursors the new iterator starts with
BorrowCursors(kind, c) ==
    CASE kind \in {"iter", "iter_mut"} -> iter_new(c).cursors
      [] kind = "iter_key_order" ->
            [from_smallest_bsi |-> iter_key_order_new(c).from_smallest_bsi,
             from_largest_bsi |-> iter_key_order_new(c).from_largest_bsi]
      [] kind = "iter_key_order_mut" -> iter_key_order_mut_new(c).traverser

\* the iterator of the given kind with cursors cur over the borrowed cache c
Borrowed(kind, cur, c) ==
    CASE kind \in {"iter", "iter_mut"} -> [cursors |-> cur, const_lru |-> c]
      [] kind = "iter_key_order" ->
            [from_smallest_bsi |-> cur.from_smallest_bsi,
             from_largest_bsi |-> cur.from_largest_bsi, const_lru |-> c]
      [] kind = "iter_key_order_mut" -> [traverser |-> cur, const_lru |-> c]

\* the cursors of the iterator t of the given kind
CursorsOf(kind, t) ==
    CASE kind \in {"iter", "iter_mut"} -> t.cursors
      [] kind = "iter_key_order" ->
            [from_smallest_bsi |-> t.from_smallest_bsi,
             from_largest_bsi |-> t.from_largest_bsi]
      [] kind = "iter_key_order_mut" -> t.traverser

\* kind's next and next_back on the iterator t
BorrowCall(kind, op, t) ==
    CASE kind = "iter" /\ op = "next" -> iter_next(t)
      [] kind = "iter" /\ op = "next_back" -> iter_next_back(t)
      [] kind = "iter_mut" /\ op = "next" -> iter_mut_next(t)
      [] kind = "iter_mut" /\ op = "next_back" -> iter_mut_next_back(t)
      [] kind = "iter_key_order" /\ op = "next" -> iter_key_order_next(t)
      [] kind = "iter_key_order" /\ op = "next_back" ->
            iter_key_order_next_back(t)
      [] kind = "iter_key_order_mut" /\ op = "next" ->
            iter_key_order_mut_next(t)
      [] kind = "iter_key_order_mut" /\ op = "next_back" ->
            iter_key_order_mut_next_back(t)

\* the cache is borrowed by a new iterator; pre keeps the cache as it was
BorrowNew ==
    /\ Idle
    /\ \E kind \in BorrowKinds :
          it' = [kind |-> kind, cursors |-> BorrowCursors(kind, lru),
                 const_lru |-> lru, pre |-> lru, via |-> "new",
                 res |-> Received(YieldNone, UninitK, UninitV),
                 front |-> <<>>, back |-> <<>>, panicked |-> FALSE]
    /\ UNCHANGED <<lru, last, amap, promo, inserted, made>>

\* the values the caller may assign through the item y of an iterator of
\* the given kind (UninitV: the caller does not write)
Writable(kind, y) ==
    IF kind \in MutKinds /\ y.kind = "Some" THEN Values \cup {UninitV}
    ELSE {UninitV}

\* the cache after the caller assigned w to the value reference of item y
WrittenThrough(c, y, w) ==
    IF w = UninitV THEN c ELSE [c EXCEPT !.values[y.slot] = w]

\* op of the borrowing iterator returned the cursors cur and the item y,
\* and the caller assigned w through the item's value reference; a panic
\* ends the use of the iterator and so does an item that refers to cells
\* holding nothing live, after which the program has no defined behaviour
BorrowStepped(op, cur, y, w) ==
    /\ lru' = WrittenThrough(lru, y, w)
    /\ it' = [it EXCEPT !.cursors = cur,
                        !.const_lru = WrittenThrough(lru, y, w),
                        !.via = op,
                        !.res = y,
                        !.front = IF op = "next" /\ y.kind = "Some"
                                  THEN Append(@, y) ELSE @,
                        !.back = IF op = "next_back" /\ y.kind = "Some"
                                 THEN Append(@, y) ELSE @,
                        !.panicked = y.kind = "Panic" \/ y.vacant]
    /\ amap' = IF w = UninitV THEN amap ELSE Written(y.k[1], w)
    /\ UNCHANGED <<last, promo, inserted, made>>

\* next or next_back of the borrowing iterator returned r
BorrowReturned(op, r) ==
    \E gk \in ReadableKeys(r.res), gv \in ReadableValues(r.res) :
        \E w \in Writable(it.kind, r.res) :
            BorrowStepped(op, CursorsOf(it.kind, r.t),
                          Received(r.res, gk, gv), w)

BorrowNext ==
    /\ it.kind \in BorrowKinds
    /\ ~it.panicked
    /\ BorrowReturned("next",
                      BorrowCall(it.kind, "next",
                                 Borrowed(it.kind, it.cursors, lru)))

BorrowNextBack ==
    /\ it.kind \in BorrowKinds
    /\ ~it.panicked
    /\ BorrowReturned("next_back",
                      BorrowCall(it.kind, "next_back",
                                 Borrowed(it.kind, it.cursors, lru)))

\* the iterator and the references it gave out are dropped: the borrow ends
BorrowEnd ==
    /\ it.kind \in BorrowKinds
    /\ ~it.panicked
    /\ it' = NoIter
    /\ UNCHANGED <<lru, last, amap, promo, inserted, made>>

NextBorrow ==
    \/ Next
    \/ BorrowNew
    \/ BorrowNext
    \/ BorrowNextBack
    \/ BorrowEnd

SpecBorrow == Init /\ [][NextBorrow]_vars

(* ------------------------------ entry API ----------------------------- *)

\* the methods of an OccupiedEntry that borrow it
AccessOps == {"get", "get_untouched", "get_mut", "get_mut_untouched"}

\* the methods of an OccupiedEntry that consume it and give a reference
IntoOps == {"into_mut", "into_mut_untouched"}

\* the methods of an OccupiedEntry that consume it and remove the key
RemoveOps == {"remove", "remove_entry"}

\* the methods of an Entry that consume it and give a reference
OrOps == {"or_insert", "or_insert_with", "or_insert_with_key", "or_default"}

\* the methods that call move_to_head on an occupied entry
PromotingOps == {"get", "get_mut", "into_mut"} \cup OrOps

\* the function a caller passes to or_insert_with_key
ByKey(v) == [k \in Keys |-> v]

\* the method op of entry e, given v, on cache c
EntryCall(op, c, e, v) ==
    CASE op = "get" -> occupied_get(c, e)
      [] op = "get_untouched" -> occupied_get_untouched(c, e)
      [] op = "get_mut" -> occupied_get_mut(c, e)
      [] op = "get_mut_untouched" -> occupied_get_mut_untouched(c, e)
      [] op = "insert" /\ e.kind = "Occupied" -> occupied_insert(c, e, v)
      [] op = "insert" /\ e.kind = "Vacant" -> vacant_insert(c, e, v)
      [] op = "into_mut" -> occupied_into_mut(c, e)
      [] op = "into_mut_untouched" -> occupied_into_mut_untouched(c, e)
      [] op = "remove" -> occupied_remove(c, e)
      [] op = "remove_entry" -> occupied_remove_entry(c, e)
      [] op = "or_insert" -> or_insert(c, e, v)
      [] op = "or_insert_with" -> or_insert_with(c, e, v)
      [] op = "or_insert_with_key" -> or_insert_with_key(c, e, ByKey(v))
      [] op = "or_default" -> or_default(c, e)

\* what the caller holds of the result r of a method
Held(r) == [index |-> r.index, v |-> r.v, opt |-> r.opt]

\* lru.entry(k): the entry borrows the cache until it is consumed or dropped
EntryNew ==
    /\ Idle
    /\ \E k \in Keys :
          it' = [kind |-> "entry", e |-> entry_new(lru, k),
                 via |-> "entry", before |-> lru, w |-> UninitV,
                 res |-> Held(EntryRes(lru, lru.cap, UninitV, ResNone))]
    /\ UNCHANGED <<lru, last, amap, promo, inserted, made>>

\* a method op of the occupied entry returned r; w is the value given to
\* insert, or the one the caller writes through the reference if it is a
\* mutable one (w = UninitV: no write)
Accessed(op, w, r) ==
    /\ lru' = IF w = UninitV \/ op = "insert" THEN r.c
              ELSE Store(r.c, "values", r.index, w)
    /\ it' = [it EXCEPT !.via = op, !.before = lru, !.w = w, !.res = Held(r)]
    /\ amap' = IF w = UninitV THEN amap ELSE Written(it.e.key[1], w)
    /\ promo' = IF op \in PromotingOps THEN Promoted(it.e.key[1]) ELSE promo
    /\ inserted' = Stopped
    /\ UNCHANGED <<last, made>>

EntryAccess ==
    /\ it.kind = "entry"
    /\ it.e.kind = "Occupied"
    /\ \E op \in AccessOps :
          \E w \in IF op \in {"get_mut", "get_mut_untouched"}
                   THEN Values \cup {UninitV} ELSE {UninitV} :
              Accessed(op, w, EntryCall(op, lru, it.e, UninitV))

EntryInsert ==
    /\ it.kind = "entry"
    /\ it.e.kind = "Occupied"
    /\ \E v \in Values :
          Accessed("insert", v, EntryCall("insert", lru, it.e, v))

\* a call that consumed the entry: the method, the entry, the value given,
\* what was returned, and the cache before the call
Consumed(op, v, r) ==
    [op |-> "entry." \o op, k |-> it.e.key, v |-> v, res |-> Held(r),
     pre |-> lru,
     lrp |-> LastOr0(promo), e |-> it.e]

\* a method op that stores (k, v) if the entry is vacant returned r
Stored(op, v, r) ==
    /\ lru' = r.c
    /\ last' = Consumed(op, v, r)
    /\ it' = NoIter
    /\ amap' = IF it.e.kind = "Occupied" THEN amap
               ELSE IF is_full(lru)
               THEN [amap EXCEPT ![lru.keys[lru.tail][1]] = UninitV,
                                 ![it.e.key[1]] = v]
               ELSE [amap EXCEPT ![it.e.key[1]] = v]
    /\ promo' = IF it.e.kind = "Occupied" THEN Promoted(it.e.key[1])
                ELSE IF is_full(lru)
                THEN ToFront(Without(promo, lru.keys[lru.tail][1]),
                             it.e.key[1])
                ELSE ToFront(promo, it.e.key[1])
    /\ inserted' = IF it.e.kind = "Occupied" \/ inserted = Stopped
                   THEN Stopped ELSE ToFront(inserted, it.e.key[1])
    /\ UNCHANGED made

EntryVacantInsert ==
    /\ it.kind = "entry"
    /\ it.e.kind = "Vacant"
    /\ \E v \in Values :
          Stored("insert", v, EntryCall("insert", lru, it.e, v))

EntryOr ==
    /\ it.kind = "entry"
    /\ it.e.kind \in {"Occupied", "Vacant"}
    /\ \E op \in OrOps, v \in Values :
          /\ op = "or_default" => v = DefaultValue
          /\ Stored(op, v, EntryCall(op, lru, it.e, v))

\* into_mut or into_mut_untouched returned r
Converted(op, r) ==
    /\ lru' = r.c
    /\ last' = Consumed(op, UninitV, r)
    /\ it' = NoIter
    /\ promo' = IF op \in PromotingOps THEN Promoted(it.e.key[1]) ELSE promo
    /\ inserted' = Stopped
    /\ UNCHANGED <<amap, made>>

EntryInto ==
    /\ it.kind = "entry"
    /\ it.e.kind = "Occupied"
    /\ \E op \in IntoOps : Converted(op, EntryCall(op, lru, it.e, UninitV))

\* remove or remove_entry returned r
Taken(op, r) ==
    /\ lru' = r.c
    /\ last' = Consumed(op, UninitV, r)
    /\ it' = NoIter
    /\ amap' = [amap EXCEPT ![it.e.key[1]] = UninitV]
    /\ promo' = Without(promo, it.e.key[1])
    /\ inserted' = Stopped
    /\ UNCHANGED made

EntryRemove ==
    /\ it.kind = "entry"
    /\ it.e.kind = "Occupied"
    /\ \E op \in RemoveOps : Taken(op, EntryCall(op, lru, it.e, UninitV))

\* the entry is dropped, or the panic of entry() unwinds
EntryEnd ==
    /\ it.kind = "entry"
    /\ it' = NoIter
    /\ UNCHANGED <<lru, last, amap, promo, inserted, made>>

NextEntry ==
    \/ Next
    \/ EntryNew
    \/ EntryAccess
    \/ EntryInsert
    \/ EntryVacantInsert
    \/ EntryOr
    \/ EntryInto
    \/ EntryRemove
    \/ EntryEnd

SpecEntry == Init /\ [][NextEntry]_vars

(* -------------------------------- clone ------------------------------- *)

CloneWays == {"clone", "clone_to_alloc"}

\* lru.clone() or lru.clone_to_alloc(ptr): the clone is a second cache, the
\* original is borrowed for the call only
Clone ==
    /\ Idle
    /\ \E how \in CloneWays :
          it' = [kind |-> "cloned", how |-> how, pre |-> lru,
                 copy |-> IF how = "clone" THEN clone(lru)
                          ELSE clone_to_alloc(lru)]
    /\ UNCHANGED <<lru, last, amap, promo, inserted, made>>

\* the clone is dropped: the slots of the clone that drop destructs
CloneDrop ==
    /\ it.kind = "cloned"
    /\ ~it.copy.panic
    /\ it' = [kind |-> "clone_dropped", how |-> it.how, pre |-> it.pre,
              copy |-> it.copy, destructed |-> drop(it.copy.c)]
    /\ UNCHANGED <<lru, last, amap, promo, inserted, made>>

\* the original is used again
CloneEnd ==
    /\ it.kind \in {"cloned", "clone_dropped"}
    /\ it' = NoIter
    /\ UNCHANGED <<lru, last, amap, promo, inserted, made>>

NextClone == Next \/ Clone \/ CloneDrop \/ CloneEnd

SpecClone == Init /\ [][NextClone]_vars

(* -------------------------------- clear ------------------------------- *)

\* clear() returned r: nothing that was counted for the old cache remains
Cleared(r) ==
    /\ lru' = r.c
    /\ last' = [op |-> "clear", k |-> UninitK, v |-> UninitV, res |-> ResNone,
                pre |-> lru, lrp |-> LastOr0(promo),
                destructed |-> r.destructed]
    /\ amap' = [o \in 1..MaxKey |-> UninitV]
    /\ promo' = <<>>
    /\ inserted' = <<>>
    /\ UNCHANGED <<it, made>>

Clear == Idle /\ Cleared(clear(lru))

NextClear == Next \/ Clear

SpecClear == Init /\ [][NextClear]_vars

(* --------------------------- red-black trees -------------------------- *)

\* the functions f and g on disjoint sets of slots, and slot n mapped to x
Joined(f, g, n, x) == (n :> x) @@ f @@ g

\* the parents of two subtrees below node n: their roots get n as parent
JoinedParents(l, r, n) ==
    (IF l.root = MaxNode THEN <<>> ELSE (l.root :> n))
    @@ (IF r.root = MaxNode THEN <<>> ELSE (r.root :> n))
    @@ l.parents @@ r.parents

\* the red-black subtrees on the slots lo..hi in which every path to a nil
\* link passes bh black nodes, nil included; the root may be red if may_red
RECURSIVE RbSubtrees(_, _, _, _)
RbSubtrees(lo, hi, bh, may_red) ==
    IF lo > hi
    THEN IF bh = 1
         THEN {[root |-> MaxNode, lefts |-> <<>>, rights |-> <<>>,
                parents |-> <<>>, rb_colors |-> <<>>]}
         ELSE {}
    ELSE UNION {
           {[root |-> n,
             lefts |-> Joined(l.lefts, r.lefts, n, l.root),
             rights |-> Joined(l.rights, r.rights, n, r.root),
             parents |-> JoinedParents(l, r, n),
             rb_colors |-> Joined(l.rb_colors, r.rb_colors, n, col)] :
              l \in RbSubtrees(lo, n - 1,
                               IF col = "Black" THEN bh - 1 ELSE bh,
                               col = "Black"),
              r \in RbSubtrees(n + 1, hi,
                               IF col = "Black" THEN bh - 1 ELSE bh,
                               col = "Black")} :
           n \in lo..hi,
           col \in IF may_red THEN {"Black", "Red"} ELSE {"Black"}}

\* the key of slot i in a tree built by hand
NodeKey(i) == <<i + 1, 0>>

\* a ConstLru<_, _, MaxNode, _> whose tree fields are set to the tree t on
\* the slots 0..n-1, as tree_a, tree_b and tree_c are built
tree_of(t, n) ==
    [init(MaxNode) EXCEPT
        !.root = t.root,
        !.len = n,
        !.head = IF n = 0 THEN MaxNode ELSE 0,
        !.tail = IF n = 0 THEN 0 ELSE n - 1,
        !.lefts = [i \in 0..(MaxNode - 1) |->
                      IF i < n THEN t.lefts[i] ELSE MaxNode],
        !.rights = [i \in 0..(MaxNode - 1) |->
                       IF i < n THEN t.rights[i] ELSE MaxNode],
        !.parents = [i \in 0..(MaxNode - 1) |->
                        IF i < n /\ i # t.root THEN t.parents[i]
                        ELSE MaxNode],
        !.rb_colors = [i \in 0..(MaxNode - 1) |->
                          IF i < n THEN t.rb_colors[i] ELSE "Black"],
        !.keys = [i \in 0..(MaxNode - 1) |->
                     IF i < n THEN NodeKey(i) ELSE UninitK],
        !.values = [i \in 0..(MaxNode - 1) |->
                       IF i < n THEN 1 ELSE UninitV]]

\* every red-black tree on the slots 0..n-1, n <= MaxNode
HandBuilt ==
    UNION {{tree_of(t, n) : t \in RbSubtrees(0, n - 1, bh, FALSE)} :
              n \in 0..MaxNode, bh \in 1..(MaxNode + 1)}

\* a cache whose tree is built by hand
TreeInit ==
    /\ lru \in HandBuilt
    /\ last = NoCall
    /\ amap = [o \in 1..MaxKey |-> UninitV]
    /\ promo = <<>>
    /\ inserted = Stopped
    /\ it = [kind |-> "tree", op |-> "built", node |-> MaxNode, pre |-> lru]
    /\ made = NotMade

\* c.remove_rb(i) on a node of the tree; the slot no longer holds a key
TreeRemove ==
    /\ it.kind = "tree"
    /\ \E i \in 0..(MaxNode - 1) :
          /\ lru.keys[i] # UninitK
          /\ lru' = [remove_rb(Store(Store(lru, "keys", i, UninitK),
                                     "values", i, UninitV), i)
                     EXCEPT !.len = @ - 1]
          /\ it' = [kind |-> "tree", op |-> "remove_rb", node |-> i,
                    pre |-> lru]
    /\ UNCHANGED <<last, amap, promo, inserted, made>>

\* slot i took its key and insert_rb hung it where the search f ended
TreeInserted(i, f) ==
    /\ ~f.ok
    /\ lru' = [insert_rb(Store(Store(lru, "keys", i, NodeKey(i)),
                               "values", i, 1), i, f.index, f.dir)
               EXCEPT !.len = @ + 1]
    /\ it' = [kind |-> "tree", op |-> "insert_rb", node |-> i, pre |-> lru]
    /\ UNCHANGED <<last, amap, promo, inserted, made>>

\* c.insert_rb(i, find_in_bst(key of i).unwrap_err()) for a slot not in the
\* tree
TreeInsert ==
    /\ it.kind = "tree"
    /\ \E i \in 0..(MaxNode - 1) :
          /\ lru.keys[i] = UninitK
          /\ TreeInserted(i, find_in_bst(lru, NodeKey(i)))

NextTree ==
    \/ Next
    \/ TreeRemove
    \/ TreeInsert

\* the calls, the borrowing iterators and the trees built by hand
NextWalk ==
    \/ NextBorrow
    \/ TreeRemove
    \/ TreeInsert

SpecWalk == (Init \/ TreeInit) /\ [][NextWalk]_vars

SpecTree == (Init \/ TreeInit) /\ [][NextTree]_vars

(* ------------------------- vocabulary of the claims ------------------- *)

Slots(c) == 0..(c.cap - 1)

\* slot i holds a live entry
Occupied(c, i) == c.keys[i] # UninitK

OccupiedSlots(c) == {i \in Slots(c) : Occupied(c, i)}

\* some occupied slot holds a key equal to k
Present(c, k) ==
    \E i \in OccupiedSlots(c) : Cmp(c.keys[i], k) = "Equal"

\* the occupied slot whose key equals k
SlotOf(c, k) ==
    CHOOSE i \in OccupiedSlots(c) : Cmp(c.keys[i], k) = "Equal"

\* the key orders in recency order, most recently used first
RecencyOrds(c) ==
    LET s == iter_slots(c) IN [j \in 1..Len(s) |-> c.keys[s[j]][1]]

\* what a lookup of key order o returns according to amap
Expected(o) == IF amap[o] = UninitV THEN ResNone ELSE ResSome(amap[o])

MinOf(a, b) == IF a < b THEN a ELSE b

LastIs(op) == last.op = op

(* ------------------------------- claims ------------------------------- *)

\* C1: with CAP >= 1, in every state reached by insert, get, get_mut,
\* get_untouched and remove, a lookup of k (by get, get_mut, get_untouched
\* or get_mut_untouched) returns the value most recently stored for k by
\* insert or by a write through get_mut, and nothing if k was never
\* inserted or was removed or evicted since
C1_LookupAgreesWithMap ==
    lru.cap >= 1 =>
        \A k \in Keys :
            /\ get(lru, k).res = Expected(k[1])
            /\ get_mut(lru, k).res = Expected(k[1])
            /\ get_untouched(lru, k).res = Expected(k[1])
            /\ get_mut_untouched(lru, k).res = Expected(k[1])

\* C1 witness: a get on a full cache of MaxCap entries returned the value a
\* get_mut wrote or an insert stored, while another key is gone
C1_Witness ==
    /\ LastIs("get")
    /\ last.res.kind = "Some"
    /\ last.res.v = amap[last.k[1]]
    /\ lru.cap = MaxCap
    /\ is_full(lru)
    /\ inserted = Stopped

\* C2: (a) while only insert has been called on a cache with CAP >= 1, the
\* keys present are exactly the min(d, CAP) most recently inserted distinct
\* keys; (b) whenever an insert evicts, the evicted key is the one whose last
\* promotion (by insert, get or get_mut) is the oldest among the keys present
C2_EvictionFollowsPromotion ==
    /\ (lru.cap >= 1 /\ inserted # Stopped) =>
            LET n == MinOf(Len(inserted), lru.cap)
            IN /\ {lru.keys[i][1] : i \in OccupiedSlots(lru)}
                    = {inserted[j] : j \in 1..n}
               /\ Cardinality(OccupiedSlots(lru)) = n
    /\ (LastIs("insert") /\ last.res.kind = "LruEvicted") =>
            last.res.k[1] = last.lrp

\* C2 witness: an insert-only run put CAP + 1 distinct keys into a cache of
\* MaxCap slots and the last insert evicted
C2_Witness ==
    /\ LastIs("insert")
    /\ last.res.kind = "LruEvicted"
    /\ inserted # Stopped
    /\ Len(inserted) = lru.cap + 1
    /\ lru.cap = MaxCap

\* C3: insert(k, v) of an absent key into a full cache (CAP >= 1) returns
\* LruEvicted with the key and value of the least recently used entry;
\* afterwards that key is absent, len is CAP, k with value v is the most
\* recently used entry and every other key is found with its old value
C3_EvictingInsert ==
    (/\ LastIs("insert")
     /\ last.pre.cap >= 1
     /\ OccupiedSlots(last.pre) = Slots(last.pre)
     /\ ~Present(last.pre, last.k)) =>
        LET pre == last.pre
            order == iter_slots(pre)
            t == order[Len(order)]
        IN /\ last.res = LruEvicted(pre.keys[t], pre.values[t])
           /\ ~Present(lru, pre.keys[t])
           /\ get_untouched(lru, pre.keys[t]).res = ResNone
           /\ lru.len = lru.cap
           /\ Cardinality(OccupiedSlots(lru)) = lru.cap
           /\ lru.keys[iter_slots(lru)[1]] = last.k
           /\ lru.values[iter_slots(lru)[1]] = last.v
           /\ \A j \in Slots(pre) \ {t} :
                 get_untouched(lru, pre.keys[j]).res = ResSome(pre.values[j])

\* C3 witness: scenario S4, the evicted key and the new key are neighbours
\* in key order between two keys that stay
C3_Witness ==
    /\ LastIs("insert")
    /\ last.res.kind = "LruEvicted"
    /\ last.pre.cap = 3
    /\ last.res.k[1] = 2
    /\ last.k[1] = 3
    /\ Present(lru, <<1, 0>>)
    /\ Present(lru, <<4, 0>>)

\* C4: insert(k, v) of a key already present returns OldValue(old value),
\* full or not: the value becomes v, the stored key is kept (the key passed
\* in is not written), the entry becomes the most recently used, len and
\* every other entry are unchanged
C4_InsertExisting ==
    (LastIs("insert") /\ Present(last.pre, last.k)) =>
        LET pre == last.pre
            i == SlotOf(pre, last.k)
        IN /\ last.res = OldValue(pre.values[i])
           /\ lru.values[i] = last.v
           /\ lru.keys = pre.keys
           /\ \A j \in Slots(pre) \ {i} : lru.values[j] = pre.values[j]
           /\ iter_slots(lru)[1] = i
           /\ lru.len = pre.len

\* C4 witness: a full cache held the key under another identity and not at
\* the head; the insert replaced a different value
C4_Witness ==
    /\ LastIs("insert")
    /\ last.res.kind = "OldValue"
    /\ last.res.v # last.v
    /\ is_full(last.pre)
    /\ last.pre.cap = MaxCap
    /\ \E i \in Slots(last.pre) :
          /\ Cmp(last.pre.keys[i], last.k) = "Equal"
          /\ last.pre.keys[i] # last.k
          /\ last.pre.head # i

\* C5: the outcome of insert(k, v) follows from the state before the call:
\* None exactly when CAP = 0 or k is absent and some slot is vacant,
\* OldValue exactly when k is present, LruEvicted exactly when k is absent
\* and every slot of a cache with CAP >= 1 is occupied; len grows by one
\* exactly in the None case with CAP >= 1 and is unchanged otherwise
C5_InsertOutcome ==
    LastIs("insert") =>
        LET pre == last.pre
            present == Present(pre, last.k)
            full == OccupiedSlots(pre) = Slots(pre)
            kind == last.res.kind
        IN /\ kind \in {"None", "OldValue", "LruEvicted"}
           /\ kind = "None" <=> (pre.cap = 0 \/ (~present /\ ~full))
           /\ kind = "OldValue" <=> present
           /\ kind = "LruEvicted" <=> (~present /\ full /\ pre.cap >= 1)
           /\ lru.len = pre.len + 1 <=> (kind = "None" /\ pre.cap >= 1)
           /\ lru.len # pre.len + 1 => lru.len = pre.len
           /\ Cardinality(OccupiedSlots(lru)) = lru.len

\* C5 witness: an insert of an absent key took the last vacant slot of a
\* cache of MaxCap slots and returned None
C5_Witness ==
    /\ LastIs("insert")
    /\ last.res.kind = "None"
    /\ last.pre.cap = MaxCap
    /\ last.pre.len = MaxCap - 1
    /\ is_full(lru)

\* C6: after insert(k, v) on a cache with CAP >= 1, get_untouched(k) returns
\* v, and the other entries that remain are in the same relative recency
\* order as before the insert
C6_InsertFrame ==
    (LastIs("insert") /\ last.pre.cap >= 1) =>
        LET pre == last.pre
            o == last.k[1]
            kept == IF last.res.kind = "LruEvicted"
                    THEN Without(RecencyOrds(pre), last.res.k[1])
                    ELSE RecencyOrds(pre)
        IN /\ get_untouched(lru, last.k).res = ResSome(last.v)
           /\ Without(RecencyOrds(lru), o) = Without(kept, o)

\* C6 witness: an insert of a new key evicted from a full cache of MaxCap
\* entries, two other entries stayed
C6_Witness ==
    /\ LastIs("insert")
    /\ last.res.kind = "LruEvicted"
    /\ last.pre.cap = MaxCap
    /\ Len(Without(RecencyOrds(lru), last.k[1])) >= 2

\* C7: get(k) and get_mut(k) on a present key return its value and make its
\* slot the head, the first slot of the recency iteration; the other slots
\* keep their relative order, no key moves, no value changes but by the
\* write through get_mut, and nothing else changes if it was the head
C7_GetPromotes ==
    ((LastIs("get") \/ LastIs("get_mut")) /\ Present(last.pre, last.k)) =>
        LET pre == last.pre
            i == SlotOf(pre, last.k)
            written == IF LastIs("get_mut")
                       THEN [pre.values EXCEPT ![i] = last.v]
                       ELSE pre.values
        IN /\ last.res = ResSome(pre.values[i])
           /\ lru.head = i
           /\ iter_slots(lru)[1] = i
           /\ Without(iter_slots(lru), i) = Without(iter_slots(pre), i)
           /\ lru.keys = pre.keys
           /\ lru.values = written
           /\ lru.len = pre.len
           /\ pre.head = i => lru = [pre EXCEPT !.values = written]

\* C7 witness: get promoted the least recently used of MaxCap entries
C7_Witness ==
    /\ LastIs("get")
    /\ last.res.kind = "Some"
    /\ last.pre.cap = MaxCap
    /\ is_full(last.pre)
    /\ Cmp(last.pre.keys[last.pre.tail], last.k) = "Equal"
    /\ lru.head = last.pre.tail

\* C8: get_untouched(k) and get_mut_untouched(k) leave head, tail, nexts,
\* prevs, len, the keys and the tree as they were, for present and absent
\* keys; only the value cell of k may change, by the write through the
\* reference get_mut_untouched returned
C8_UntouchedFrame ==
    (LastIs("get_untouched") \/ LastIs("get_mut_untouched")) =>
        LET pre == last.pre
        IN /\ [lru EXCEPT !.values = pre.values] = pre
           /\ LastIs("get_untouched") => lru = pre
           /\ Present(pre, last.k) =>
                 /\ last.res = ResSome(pre.values[SlotOf(pre, last.k)])
                 /\ \A j \in Slots(pre) \ {SlotOf(pre, last.k)} :
                       lru.values[j] = pre.values[j]
                 /\ LastIs("get_mut_untouched") =>
                       lru.values[SlotOf(pre, last.k)] = last.v
           /\ ~Present(pre, last.k) => (last.res = ResNone /\ lru = pre)

\* C8 witness: get_mut_untouched changed the value of an entry that is not
\* the head of a cache with at least two entries
C8_Witness ==
    /\ LastIs("get_mut_untouched")
    /\ last.res.kind = "Some"
    /\ last.res.v # last.v
    /\ last.pre.len >= 2
    /\ Cmp(lru.keys[lru.head], last.k) # "Equal"

\* C9: get, get_mut and remove of a key that is not present return nothing
\* and leave the whole cache as it was
C9_AbsentKeyNoChange ==
    ((LastIs("get") \/ LastIs("get_mut") \/ LastIs("remove"))
     /\ ~Present(last.pre, last.k)) =>
        (last.res = ResNone /\ lru = last.pre)

\* C9 witness: remove of an absent key on a cache that holds two entries
\* and has had an entry removed before (a slot of the free list is not in
\* its initial place)
C9_Witness ==
    /\ LastIs("remove")
    /\ last.res = ResNone
    /\ last.pre.len = 2
    /\ last.pre.cap = 3
    /\ last.pre.nexts # init(3).nexts

\* C10: remove(k) of a present key returns its value; afterwards k is
\* absent, len is one less, every other entry is found with its value and
\* the remaining slots keep their relative recency order
C10_RemovePresent ==
    (LastIs("remove") /\ Present(last.pre, last.k)) =>
        LET pre == last.pre
            i == SlotOf(pre, last.k)
        IN /\ last.res = ResSome(pre.values[i])
           /\ ~Present(lru, last.k)
           /\ get_untouched(lru, last.k).res = ResNone
           /\ lru.len = pre.len - 1
           /\ OccupiedSlots(lru) = OccupiedSlots(pre) \ {i}
           /\ \A j \in OccupiedSlots(pre) \ {i} :
                 /\ lru.keys[j] = pre.keys[j]
                 /\ get_untouched(lru, pre.keys[j]).res
                        = ResSome(pre.values[j])
           /\ iter_slots(lru) = Without(iter_slots(pre), i)

\* C10 witness: the entry removed was neither head nor tail of a full cache
C10_Witness ==
    /\ LastIs("remove")
    /\ last.res.kind = "Some"
    /\ is_full(last.pre)
    /\ last.pre.cap = MaxCap
    /\ \E i \in Slots(last.pre) :
          /\ Cmp(last.pre.keys[i], last.k) = "Equal"
          /\ i # last.pre.head
          /\ i # last.pre.tail

\* C11: in every state between calls len is the number of occupied slots
\* (slots holding a live key and a live value), 0 <= len <= CAP, is_empty()
\* holds exactly when no slot is occupied and is_full() exactly when every
\* slot is
C11_LenCountsOccupied ==
    /\ len(lru) = Cardinality(OccupiedSlots(lru))
    /\ OccupiedSlots(lru) = {i \in Slots(lru) : lru.values[i] # UninitV}
    /\ len(lru) \in 0..lru.cap
    /\ is_empty(lru) <=> OccupiedSlots(lru) = {}
    /\ is_full(lru) <=> OccupiedSlots(lru) = Slots(lru)

\* C11 witness: after an allocating insert and a remove the cache of the
\* largest capacity is neither empty nor full
C11_Witness ==
    /\ LastIs("remove")
    /\ last.res.kind = "Some"
    /\ lru.cap = MaxCap
    /\ len(lru) = 1
    /\ ~is_empty(lru)
    /\ ~is_full(lru)

\* the first next and the first next_back of every iterator over c, recency
\* and key order, return None and leave the iterator as it was
NothingToIterate(c) ==
    /\ \A kind \in IterKinds, op \in {"next", "next_back"} :
          IterCall(kind, op, iter_new(c)) = [t |-> iter_new(c), res |-> YieldNone]
    /\ iter_key_order_next(iter_key_order_new(c))
          = [t |-> iter_key_order_new(c), res |-> YieldNone]
    /\ iter_key_order_next_back(iter_key_order_new(c))
          = [t |-> iter_key_order_new(c), res |-> YieldNone]
    /\ iter_key_order_mut_next(iter_key_order_mut_new(c))
          = [t |-> iter_key_order_mut_new(c), res |-> YieldNone]
    /\ iter_key_order_mut_next_back(iter_key_order_mut_new(c))
          = [t |-> iter_key_order_mut_new(c), res |-> YieldNone]

\* C12: a cache with CAP == 0 is empty and full at once; insert returns None
\* and stores nothing, get, get_mut and remove return None, every iterator
\* (iter, iter_mut, into_iter, iter_key_order, iter_key_order_mut) returns
\* None from either end, and no call indexes a slot (no panic, the cache is
\* the one new() made)
C12_ZeroCap ==
    lru.cap = 0 =>
        /\ lru = init(0)
        /\ ~lru.panicked
        /\ is_empty(lru)
        /\ is_full(lru)
        /\ \A k \in Keys :
              /\ \A v \in Values :
                    insert(lru, k, v) = [c |-> lru, res |-> ResNone]
              /\ get(lru, k).res = ResNone
              /\ get(lru, k).c = lru
              /\ get_mut(lru, k).res = ResNone
              /\ remove(lru, k) = [c |-> lru, res |-> ResNone]
        /\ (~Idle /\ it = NoIter) => last.res = ResNone
        /\ NothingToIterate(lru)
        /\ it.kind \in IterKinds =>
              /\ it.res.kind = "None"
              /\ it.front = <<>>
              /\ it.back = <<>>
              /\ ~it.panicked
              /\ it.const_lru = lru
        /\ it.kind = "dropped" => it.destructed = <<>>

\* C12 witness: on a cache with CAP == 0 next_back of the consuming
\* iterator was called
C12_Witness ==
    /\ lru.cap = 0
    /\ it.kind = "into_iter"
    /\ it.via = "next_back"
    /\ it.res.kind = "None"

\* every index the cache c stores: the sentinel, the ends and all the links
StoredIndices(c) ==
    {c.cap, c.head, c.tail, c.root, c.len}
        \cup {c.nexts[i] : i \in Slots(c)} \cup {c.prevs[i] : i \in Slots(c)}
        \cup {c.lefts[i] : i \in Slots(c)} \cup {c.rights[i] : i \in Slots(c)}
        \cup {c.parents[i] : i \in Slots(c)}

\* C13: constructing a cache panics if and only if the maximum of the index
\* type I exceeds the maximum of usize or CAP exceeds the maximum of I; CAP
\* equal to the maximum of I is accepted, and then the sentinel CAP and every
\* link written by the initialisation are values of I.
C13_NewPanicsIffTooWide ==
    made.op = "new" =>
        /\ made.res.panic # "none"
              <=> (made.i_max > made.usize_max \/ made.cap > made.i_max)
        /\ (made.cap = made.i_max /\ made.i_max <= made.usize_max) =>
              /\ made.res.panic = "none"
              /\ made.res.c.cap = made.cap
              /\ Cardinality(Slots(made.res.c)) = made.cap
              /\ is_empty(made.res.c)
              /\ \A x \in StoredIndices(made.res.c) : x \in 0..made.i_max

C13_Witness ==
    /\ made.op = "new"
    /\ made.cap = made.i_max
    /\ made.i_max = 2 ^ MaxBits - 1
    /\ made.usize_max = made.i_max
    /\ made.res.panic = "none"
    /\ made.res.c.nexts[made.cap - 1] = made.i_max

\* no two pairs of the array have equal keys
DistinctKeys(entries) ==
    \A a, b \in DOMAIN entries :
        a # b => Cmp(entries[a][1], entries[b][1]) # "Equal"

\* c.iter() collected: the pairs from most to least recently used
IterPairs(c) ==
    [j \in 1..Len(iter_slots(c)) |->
        <<c.keys[iter_slots(c)[j]], c.values[iter_slots(c)[j]]>>]

\* C14: try_from on an array of CAP pairs with pairwise distinct keys yields
\* a full cache whose recency iteration returns the same pairs in the same
\* order (position 0 most recently used, position CAP - 1 least), and on
\* which get and remove of every input key return the input value.
C14_TryFromRoundTrip ==
    (made.op = "try_from" /\ DistinctKeys(made.entries)) =>
        /\ made.res.ok
        /\ ~made.res.c.panicked
        /\ is_full(made.res.c)
        /\ len(made.res.c) = Len(made.entries)
        /\ IterPairs(made.res.c) = made.entries
        /\ Len(made.entries) > 0 =>
              /\ made.res.c.head = 0
              /\ made.res.c.tail = Len(made.entries) - 1
        /\ \A j \in DOMAIN made.entries :
              /\ get(made.res.c, made.entries[j][1]).res
                    = ResSome(made.entries[j][2])
              /\ remove(made.res.c, made.entries[j][1]).res
                    = ResSome(made.entries[j][2])
              /\ ~remove(made.res.c, made.entries[j][1]).c.panicked

C14_Witness ==
    /\ made.op = "try_from"
    /\ Len(made.entries) = MaxCap
    /\ DistinctKeys(made.entries)
    /\ made.entries[1][1][1] > made.entries[MaxCap][1][1]
    /\ made.entries[MaxCap][1][1] > made.entries[2][1][1]
    /\ made.res.ok
    /\ IterPairs(made.res.c) = made.entries

\* C15: try_from returns an error if and only if two pairs of the array have
\* equal keys; the key in DuplicateKeysError is the key of one pair of the
\* array whose key another pair has too; otherwise the built cache, holding
\* every pair, is returned.
C15_TryFromDuplicateError ==
    made.op = "try_from" =>
        /\ ~made.res.ok <=> ~DistinctKeys(made.entries)
        /\ ~made.res.ok =>
              \E a, b \in DOMAIN made.entries :
                  /\ a # b
                  /\ made.res.err = made.entries[a][1]
                  /\ Cmp(made.entries[b][1], made.res.err) = "Equal"
        /\ made.res.ok =>
              /\ made.res.err = UninitK
              /\ \A j \in DOMAIN made.entries :
                    /\ made.res.c.keys[j - 1] = made.entries[j][1]
                    /\ made.res.c.values[j - 1] = made.entries[j][2]
                    /\ find_in_bst(made.res.c, made.entries[j][1])
                          = [ok |-> TRUE, index |-> j - 1,
                             dir |-> find_in_bst(made.res.c,
                                                 made.entries[j][1]).dir]

C15_Witness ==
    /\ made.op = "try_from"
    /\ Len(made.entries) = MaxCap
    /\ ~made.res.ok
    /\ Cmp(made.entries[1][1], made.entries[2][1]) # "Equal"
    /\ Cmp(made.entries[2][1], made.entries[MaxCap][1]) = "Equal"
    /\ made.res.err = made.entries[2][1]
    /\ made.res.err # made.entries[MaxCap][1]

\* how many times slot i occurs in the sequence of slots s
Times(s, i) == Cardinality({j \in DOMAIN s : s[j] = i})

\* C16: when try_from fails, every key and value of the array is accounted
\* for exactly once: the key in the error was moved out of its slot, the
\* value paired with it was destructed once, and the destructor of the
\* partially built cache destructs the key and the value of every other
\* slot exactly once, each of them live, and never the slot moved out of.
C16_TryFromFailureAccounts ==
    (made.op = "try_from" /\ ~made.res.ok) =>
        \E e \in Slots(made.res.c) :
            /\ made.res.err = made.entries[e + 1][1]
            /\ made.res.dropped_value = made.entries[e + 1][2]
            /\ made.res.c.keys[e] = UninitK
            /\ made.res.c.values[e] = UninitV
            /\ Times(made.res.destructed, e) = 0
            /\ Len(made.res.destructed) = Len(made.entries) - 1
            /\ \A i \in Slots(made.res.c) \ {e} :
                  /\ Times(made.res.destructed, i) = 1
                  /\ made.res.c.keys[i] = made.entries[i + 1][1]
                  /\ made.res.c.values[i] = made.entries[i + 1][2]

C16_Witness ==
    /\ made.op = "try_from"
    /\ Len(made.entries) = MaxCap
    /\ ~made.res.ok
    /\ Cmp(made.entries[1][1], made.entries[MaxCap][1]) = "Equal"
    /\ made.res.err = made.entries[1][1]
    /\ made.res.c.keys[0] = UninitK
    /\ made.res.c.head = 1
    /\ Len(made.res.destructed) = MaxCap - 1

\* the key and value cells of d are those of c, except in the slots S
SameCellsBut(c, d, S) ==
    \A i \in Slots(c) \ S :
        d.keys[i] = c.keys[i] /\ d.values[i] = c.values[i]

\* C17: over insert, writes through get_mut, remove and eviction, then
\* dropping the cache, every key and value moved in is destructed once or
\* handed back once: the destructor destructs exactly the occupied slots,
\* once each; remove empties the slot's cells and returns the value but not
\* the key; an eviction returns the key and the value of the slot it
\* reuses; a replacement returns the old value and stores nothing of the
\* key passed in; every other cell is left as it was.
C17_DropSafety ==
    /\ \A i \in Slots(lru) :
          /\ Times(drop(lru), i) = IF Occupied(lru, i) THEN 1 ELSE 0
          /\ lru.keys[i] = UninitK <=> lru.values[i] = UninitV
    /\ Len(drop(lru)) = len(lru)
    /\ (it.kind = "dropped" /\ it.of = NoIter) =>
          /\ Len(it.destructed) = Cardinality(OccupiedSlots(lru))
          /\ {it.destructed[j] : j \in DOMAIN it.destructed}
                = OccupiedSlots(lru)
    /\ (LastIs("remove") /\ last.res.kind = "Some") =>
          \E s \in OccupiedSlots(last.pre) :
              /\ Cmp(last.pre.keys[s], last.k) = "Equal"
              /\ lru.keys[s] = UninitK
              /\ lru.values[s] = UninitV
              /\ last.res = ResSome(last.pre.values[s])
              /\ SameCellsBut(last.pre, lru, {s})
    /\ (LastIs("remove") /\ last.res.kind = "None") =>
          SameCellsBut(last.pre, lru, {})
    /\ (LastIs("insert") /\ last.res.kind = "LruEvicted") =>
          /\ is_full(last.pre)
          /\ last.res = LruEvicted(last.pre.keys[last.pre.tail],
                                   last.pre.values[last.pre.tail])
          /\ lru.keys[last.pre.tail] = last.k
          /\ lru.values[last.pre.tail] = last.v
          /\ SameCellsBut(last.pre, lru, {last.pre.tail})
    /\ (LastIs("insert") /\ last.res.kind = "OldValue") =>
          \E s \in OccupiedSlots(last.pre) :
              /\ Cmp(last.pre.keys[s], last.k) = "Equal"
              /\ last.res = OldValue(last.pre.values[s])
              /\ lru.values[s] = last.v
              /\ lru.keys = last.pre.keys
              /\ SameCellsBut(last.pre, lru, {s})
    /\ (LastIs("insert") /\ last.res.kind = "None") =>
          IF lru.cap = 0 THEN lru = last.pre
          ELSE \E s \in Slots(lru) \ OccupiedSlots(last.pre) :
                  /\ lru.keys[s] = last.k
                  /\ lru.values[s] = last.v
                  /\ SameCellsBut(last.pre, lru, {s})
    /\ (last.op \in {"get_mut", "get_mut_untouched"}
           /\ last.res.kind = "Some") =>
          \E s \in OccupiedSlots(last.pre) :
              /\ Cmp(last.pre.keys[s], last.k) = "Equal"
              /\ last.res = ResSome(last.pre.values[s])
              /\ lru.values[s] = last.v
              /\ lru.keys = last.pre.keys
              /\ SameCellsBut(last.pre, lru, {s})
    /\ (\/ last.op \in {"get", "get_untouched"}
        \/ /\ last.op \in {"get_mut", "get_mut_untouched"}
           /\ last.res.kind = "None") =>
          SameCellsBut(last.pre, lru, {})

C17_Witness ==
    /\ it.kind = "dropped"
    /\ it.of = NoIter
    /\ lru.cap = MaxCap
    /\ inserted = Stopped
    /\ OccupiedSlots(lru) = {0, MaxCap - 1}
    /\ lru.head = MaxCap - 1
    /\ it.destructed = <<MaxCap - 1, 0>>

\* the iterator it as the record next and next_back take
ItSelf == [cursors |-> it.cursors, const_lru |-> it.const_lru]

\* an iterator is in use and next_back has had no effect on it so far
ForwardOnly ==
    /\ it.kind \in IterKinds
    /\ it.back = <<>>
    /\ ~(it.via = "next_back" /\ it.panicked)

\* C19: forward recency iteration (iter, iter_mut, into_iter with next
\* only) yields exactly len entries, each occupied entry once, from the most
\* to the least recently used, and then None; it never panics and never
\* yields a vacant slot.
C19_ForwardIteration ==
    ForwardOnly =>
        /\ ~it.panicked
        /\ Len(it.front) <= len(lru)
        /\ \A j \in DOMAIN it.front :
              /\ it.front[j].slot \in OccupiedSlots(lru)
              /\ ~it.front[j].vacant
              /\ it.front[j].k = lru.keys[it.front[j].slot]
              /\ it.front[j].v = lru.values[it.front[j].slot]
              /\ it.front[j].k[1] = promo[j]
              /\ \A h \in DOMAIN it.front :
                    h # j => it.front[h].slot # it.front[j].slot
        /\ (it.via = "next" /\ it.res.kind = "None") =>
              Len(it.front) = len(lru)
        /\ (it.via = "next" /\ it.res.kind = "Some") =>
              it.res = it.front[Len(it.front)]
        /\ IterCall(it.kind, "next", ItSelf).res.kind
              = IF Len(it.front) = len(lru) THEN "None" ELSE "Some"

C19_Witness ==
    /\ ForwardOnly
    /\ it.kind = "into_iter"
    /\ lru.cap = MaxCap
    /\ len(lru) = MaxCap - 1
    /\ lru.head # 0
    /\ Len(it.front) = len(lru)
    /\ it.via = "next"
    /\ it.res.kind = "None"

\* the slots an iterator record t has yielded, from either end
Yielded(t) ==
    {t.front[j].slot : j \in DOMAIN t.front}
        \cup {t.back[j].slot : j \in DOMAIN t.back}

\* C18: for the consuming iterator, after any number of next and next_back
\* calls and the drop of the iterator, each entry yielded is the caller's
\* alone (the cache destructor does not touch its slot) and each entry not
\* yielded is destructed exactly once by the cache destructor; each yield
\* hands out a live entry, takes its slot out of the list the destructor
\* walks and decreases len by one.
C18_ConsumingIterator ==
    /\ it.kind = "into_iter" =>
          /\ ~it.panicked
          /\ it.const_lru.len = len(lru) - Len(it.front) - Len(it.back)
          /\ Cardinality(Yielded(it)) = Len(it.front) + Len(it.back)
          /\ Yielded(it) \subseteq OccupiedSlots(lru)
          /\ \A i \in Slots(lru) :
                Times(drop(it.const_lru), i)
                   = IF i \in OccupiedSlots(lru) \ Yielded(it) THEN 1 ELSE 0
    /\ (it.kind = "dropped" /\ it.of # NoIter) =>
          /\ ~it.of.panicked
          /\ Yielded(it.of) \subseteq OccupiedSlots(lru)
          /\ \A j \in DOMAIN it.of.front : ~it.of.front[j].vacant
          /\ \A j \in DOMAIN it.of.back : ~it.of.back[j].vacant
          /\ \A i \in Slots(lru) :
                Times(it.destructed, i)
                   = IF i \in OccupiedSlots(lru) \ Yielded(it.of)
                     THEN 1 ELSE 0

\* an iterator is in use and next has had no effect on it so far
BackwardOnly ==
    /\ it.kind \in IterKinds
    /\ it.front = <<>>
    /\ ~(it.via = "next" /\ it.panicked)

\* C20: reverse recency iteration (iter, iter_mut, into_iter with next_back
\* only) yields exactly len entries from the least to the most recently
\* used: the first next_back on a non-empty cache yields the entry in slot
\* tail, full or not, and no call reads a vacant slot or index CAP.
C20_ReverseIteration ==
    BackwardOnly =>
        /\ ~it.panicked
        /\ Len(it.back) <= len(lru)
        /\ Len(it.back) >= 1 => it.back[1].slot = lru.tail
        /\ \A j \in DOMAIN it.back :
              /\ it.back[j].slot \in OccupiedSlots(lru)
              /\ ~it.back[j].vacant
              /\ it.back[j].k = lru.keys[it.back[j].slot]
              /\ it.back[j].v = lru.values[it.back[j].slot]
              /\ it.back[j].k[1] = promo[Len(promo) + 1 - j]
        /\ (it.via = "next_back" /\ it.res.kind = "None") =>
              Len(it.back) = len(lru)
        /\ IterCall(it.kind, "next_back", ItSelf).res.kind
              = IF Len(it.back) = len(lru) THEN "None" ELSE "Some"

\* C21: for the recency iterators, under any interleaving of next and
\* next_back each occupied entry is yielded exactly once in total: the front
\* calls yield from the most recently used on, the back calls from the
\* least recently used on, and once the cursors have met (len entries were
\* yielded) next and next_back both return None, and only then.
C21_InterleavedIteration ==
    it.kind \in IterKinds =>
        /\ ~it.panicked
        /\ Len(it.front) + Len(it.back) <= len(lru)
        /\ Cardinality(Yielded(it)) = Len(it.front) + Len(it.back)
        /\ Yielded(it) \subseteq OccupiedSlots(lru)
        /\ \A j \in DOMAIN it.front :
              /\ ~it.front[j].vacant
              /\ it.front[j].k = lru.keys[it.front[j].slot]
              /\ it.front[j].v = lru.values[it.front[j].slot]
              /\ it.front[j].k[1] = promo[j]
        /\ \A j \in DOMAIN it.back :
              /\ ~it.back[j].vacant
              /\ it.back[j].k = lru.keys[it.back[j].slot]
              /\ it.back[j].v = lru.values[it.back[j].slot]
              /\ it.back[j].k[1] = promo[Len(promo) + 1 - j]
        /\ IterCall(it.kind, "next", ItSelf).res.kind
              = IF Len(it.front) + Len(it.back) = len(lru)
                THEN "None" ELSE "Some"
        /\ IterCall(it.kind, "next_back", ItSelf).res.kind
              = IF Len(it.front) + Len(it.back) = len(lru)
                THEN "None" ELSE "Some"

KeyOrderKinds == {"iter_key_order", "iter_key_order_mut"}

\* the position of occupied slot i of c among the occupied slots by
\* ascending key, 1 for the smallest key
Rank(c, i) ==
    1 + Cardinality({j \in OccupiedSlots(c) :
                        Cmp(c.keys[j], c.keys[i]) = "Less"})

\* what next / next_back of the borrowing iterator it would return now
NextOf(op) ==
    BorrowCall(it.kind, op, Borrowed(it.kind, it.cursors, lru)).res.kind

\* C22: the key-order iterators yield every occupied entry exactly once
\* under any interleaving of next and next_back: the front calls yield
\* strictly ascending keys from the smallest on, the back calls strictly
\* descending keys from the largest on, and after len yields in total, and
\* only then, both ends return None; no call panics, for every tree shape
\* reached by inserts and removes.
C22_KeyOrderIteration ==
    it.kind \in KeyOrderKinds =>
        /\ ~it.panicked
        /\ Len(it.front) + Len(it.back) <= len(lru)
        /\ Cardinality(Yielded(it)) = Len(it.front) + Len(it.back)
        /\ Yielded(it) \subseteq OccupiedSlots(lru)
        /\ \A j \in DOMAIN it.front :
              /\ ~it.front[j].vacant
              /\ it.front[j].k = lru.keys[it.front[j].slot]
              /\ it.front[j].v = it.pre.values[it.front[j].slot]
              /\ Rank(lru, it.front[j].slot) = j
        /\ \A j \in DOMAIN it.back :
              /\ ~it.back[j].vacant
              /\ it.back[j].k = lru.keys[it.back[j].slot]
              /\ it.back[j].v = it.pre.values[it.back[j].slot]
              /\ Rank(lru, it.back[j].slot) = len(lru) + 1 - j
        /\ NextOf("next")
              = IF Len(it.front) + Len(it.back) = len(lru)
                THEN "None" ELSE "Some"
        /\ NextOf("next_back")
              = IF Len(it.front) + Len(it.back) = len(lru)
                THEN "None" ELSE "Some"

C22_Witness ==
    /\ it.kind = "iter_key_order_mut"
    /\ lru.cap = MaxCap
    /\ len(lru) = MaxCap
    /\ inserted = Stopped
    /\ lru.root # 0
    /\ Len(it.front) = 1
    /\ Len(it.back) = MaxCap - 1
    /\ it.via = "next"
    /\ it.res.kind = "None"

\* C23: creating and stepping a borrowing iterator (iter, iter_mut,
\* iter_key_order, iter_key_order_mut) leaves len, head, tail, nexts, prevs
\* and the key index as they were when the iterator was created, also when
\* values are overwritten through the mutable iterators; only the values of
\* yielded entries may differ, and a value written through a mutable
\* iterator is what get_untouched returns for that key afterwards.
C23_BorrowFrame ==
    /\ it.kind \in BorrowKinds =>
          /\ lru.len = it.pre.len
          /\ lru.head = it.pre.head
          /\ lru.tail = it.pre.tail
          /\ lru.nexts = it.pre.nexts
          /\ lru.prevs = it.pre.prevs
          /\ lru.root = it.pre.root
          /\ lru.lefts = it.pre.lefts
          /\ lru.rights = it.pre.rights
          /\ lru.parents = it.pre.parents
          /\ lru.rb_colors = it.pre.rb_colors
          /\ lru.keys = it.pre.keys
          /\ \A s \in Slots(lru) \ Yielded(it) :
                lru.values[s] = it.pre.values[s]
          /\ it.kind \notin MutKinds => lru = it.pre
    /\ \A k \in Keys : get_untouched(lru, k).res = Expected(k[1])

\* the entry that entry(k) just returned, or its panic
EntryMade == it.kind = "entry" /\ it.via = "entry"

\* C24: entry(k) on a cache with CAP >= 1 returns the Occupied view exactly
\* when k is present and the Vacant view exactly when k is absent, and does
\* not change the cache; on a cache with CAP = 0 it panics. The Occupied
\* view carries the slot that holds a key equal to k.
C24_EntryView ==
    EntryMade =>
        /\ (it.e.kind = "Panic") <=> (lru.cap = 0)
        /\ (it.e.kind = "Occupied") <=>
               (lru.cap >= 1 /\ amap[it.e.key[1]] # UninitV)
        /\ (it.e.kind = "Vacant") <=>
               (lru.cap >= 1 /\ amap[it.e.key[1]] = UninitV)
        /\ (it.e.kind = "Occupied") <=> Present(lru, it.e.key)
        /\ it.e.kind = "Occupied" => it.e.index = SlotOf(lru, it.e.key)
        /\ it.before = lru
        /\ last = NoCall

\* an Occupied view for a key that is equal to, but not the same object as,
\* the stored key, in a cache that holds another entry too
C24_Witness ==
    /\ EntryMade
    /\ it.e.kind = "Occupied"
    /\ lru.keys[it.e.index] # it.e.key
    /\ lru.len >= 2

\* C25: VacantEntry::insert(v) is equivalent to insert(k, v) on the cache
\* the entry borrowed: on a full cache it evicts and returns the least
\* recently used entry (key and value) and len stays CAP; otherwise it
\* returns no evicted entry and len grows by one; in both cases the
\* reference returned points at v in the slot of k, k is then found with
\* value v, and the cache is the one insert(k, v) would have produced
C25_VacantInsert ==
    LastIs("entry.insert") =>
        /\ lru = insert(last.pre, last.k, last.v).c
        /\ last.res.opt = insert(last.pre, last.k, last.v).res
        /\ is_full(last.pre) =>
              /\ last.res.opt =
                     LruEvicted(last.pre.keys[last.pre.tail],
                                last.pre.values[last.pre.tail])
              /\ last.res.opt.k[1] = last.lrp
              /\ lru.len = lru.cap
        /\ ~is_full(last.pre) =>
              /\ last.res.opt = ResNone
              /\ lru.len = last.pre.len + 1
        /\ last.res.v = last.v
        /\ lru.keys[last.res.index] = last.k
        /\ lru.values[last.res.index] = last.v
        /\ get_untouched(lru, last.k).res = ResSome(last.v)
        /\ amap[last.k[1]] = last.v

\* an insert through a Vacant entry that evicted from a cache of 3
C25_Witness ==
    /\ LastIs("entry.insert")
    /\ last.res.opt.kind = "LruEvicted"
    /\ lru.cap = 3

\* an Occupied entry is alive
EntryOccupied == it.kind = "entry" /\ it.e.kind = "Occupied"

\* C26: through an Occupied entry, get, get_mut, get_untouched and
\* get_mut_untouched all return the entry's current value; a value written
\* through get_mut (or get_mut_untouched) or set with insert(v) is what
\* every later accessor and every later lookup of the key in the cache
\* returns; insert(v) returns the previous value; none of them changes len
C26_OccupiedAccess ==
    /\ EntryOccupied =>
          /\ \A op \in AccessOps :
                /\ EntryCall(op, lru, it.e, UninitV).v = amap[it.e.key[1]]
                /\ EntryCall(op, lru, it.e, UninitV).index = it.e.index
                /\ EntryCall(op, lru, it.e, UninitV).c.len = lru.len
          /\ it.via \in AccessOps \cup {"insert"} =>
                /\ ResSome(it.res.v) = get_untouched(it.before, it.e.key).res
                /\ lru.len = it.before.len
          /\ it.via \in AccessOps \cup {"insert"} /\ it.w # UninitV =>
                /\ amap[it.e.key[1]] = it.w
                /\ lru.values[it.e.index] = it.w
    /\ lru.cap >= 1 =>
          \A k \in Keys : get_untouched(lru, k).res = Expected(k[1])

\* insert(v) through an Occupied entry replaced a different value in a cache
\* that holds another entry too
C26_Witness ==
    /\ EntryOccupied
    /\ it.via = "insert"
    /\ it.res.v # it.w
    /\ lru.len >= 2

\* the last call consumed an Occupied entry by one of the methods ops
ConsumedOccupied(ops) ==
    /\ last.op \in {"entry." \o op : op \in ops}
    /\ last.e.kind = "Occupied"

\* C27: through an Occupied entry, get, get_mut and into_mut (and or_insert,
\* or_insert_with, or_insert_with_key and or_default when the key exists)
\* move the entry to the most recently used position and keep the order of
\* the others, while get_untouched, get_mut_untouched and
\* into_mut_untouched leave the recency order unchanged
C27_EntryPromotion ==
    /\ EntryOccupied /\ it.via \in {"get", "get_mut"} =>
          RecencyOrds(lru) = ToFront(RecencyOrds(it.before), it.e.key[1])
    /\ EntryOccupied /\ it.via \in {"get_untouched", "get_mut_untouched"} =>
          /\ RecencyOrds(lru) = RecencyOrds(it.before)
          /\ lru.head = it.before.head /\ lru.tail = it.before.tail
          /\ lru.nexts = it.before.nexts /\ lru.prevs = it.before.prevs
    /\ ConsumedOccupied({"into_mut"} \cup OrOps) =>
          RecencyOrds(lru) = ToFront(RecencyOrds(last.pre), last.k[1])
    /\ ConsumedOccupied({"into_mut_untouched"}) =>
          /\ RecencyOrds(lru) = RecencyOrds(last.pre)
          /\ lru.head = last.pre.head /\ lru.tail = last.pre.tail
          /\ lru.nexts = last.pre.nexts /\ lru.prevs = last.pre.prevs
    /\ lru.cap >= 1 => RecencyOrds(lru) = promo

\* get through an Occupied entry promoted the least recently used of three
C27_Witness ==
    /\ EntryOccupied
    /\ it.via = "get"
    /\ it.before.len = 3
    /\ it.before.tail = it.e.index
    /\ lru.head = it.e.index

\* C28: OccupiedEntry::remove and remove_entry are equivalent to remove(k)
\* on the cache the entry borrowed: they return the stored value
\* (remove_entry also the stored key), afterwards the key is absent, len is
\* one less, and the other entries and their recency order are unchanged
C28_EntryRemove ==
    last.op \in {"entry.remove", "entry.remove_entry"} =>
        /\ lru = remove(last.pre, last.k).c
        /\ ResSome(last.res.v) = remove(last.pre, last.k).res
        /\ ResSome(last.res.v) = get_untouched(last.pre, last.k).res
        /\ last.op = "entry.remove" => last.res.opt = ResNone
        /\ last.op = "entry.remove_entry" =>
               last.res.opt = [kind |-> "Pair",
                               k |-> last.pre.keys[SlotOf(last.pre, last.k)],
                               v |-> last.res.v]
        /\ ~Present(lru, last.k)
        /\ amap[last.k[1]] = UninitV
        /\ lru.len = last.pre.len - 1
        /\ RecencyOrds(lru) = Without(RecencyOrds(last.pre), last.k[1])
        /\ \A k \in Keys :
              Cmp(k, last.k) # "Equal" =>
                  get_untouched(lru, k).res = get_untouched(last.pre, k).res

\* remove_entry took one of three entries and returned the stored key,
\* which is not the object the entry was asked for
C28_Witness ==
    /\ last.op = "entry.remove_entry"
    /\ last.res.opt.k # last.k
    /\ last.pre.len = 3

\* C29: or_insert, or_insert_with, or_insert_with_key and or_default return
\* a reference to the existing value, unmodified, when the key is present
\* (the default is not stored), and otherwise insert the default under the
\* entry's key, evicting the least recently used entry if the cache is
\* full, and return a reference to it; afterwards the key is present
C29_OrInsert ==
    last.op \in {"entry." \o op : op \in OrOps} =>
        /\ last.e.kind = "Occupied" =>
              /\ ResSome(last.res.v) = get_untouched(last.pre, last.k).res
              /\ last.res.index = SlotOf(last.pre, last.k)
              /\ lru.keys = last.pre.keys
              /\ lru.values = last.pre.values
              /\ lru.len = last.pre.len
        /\ last.e.kind = "Vacant" =>
              /\ ~Present(last.pre, last.k)
              /\ lru = insert(last.pre, last.k, last.v).c
              /\ last.res.v = last.v
              /\ lru.keys[last.res.index] = last.k
              /\ is_full(last.pre) =>
                    /\ ~Present(lru, last.pre.keys[last.pre.tail])
                    /\ lru.len = lru.cap
              /\ ~is_full(last.pre) => lru.len = last.pre.len + 1
        /\ last.op = "entry.or_default" => last.v = DefaultValue
        /\ lru.values[last.res.index] = last.res.v
        /\ Present(lru, last.k)
        /\ get_untouched(lru, last.k).res = ResSome(last.res.v)
        /\ amap[last.k[1]] = last.res.v

\* or_insert on a present key whose value is not the default offered
C29_Witness ==
    /\ last.op = "entry.or_insert"
    /\ last.e.kind = "Occupied"
    /\ last.res.v # last.v
    /\ lru.len >= 2

\* a clone of lru is alive, or was just dropped
Cloned == it.kind \in {"cloned", "clone_dropped"}

\* C30: clone and clone_to_alloc of a cache in any reachable state produce a
\* cache with the same len, the same key-value pairs, the same recency
\* order and the same key order as the original, clone exactly the occupied
\* slots (each once) and no vacant slot, and leave the original unchanged;
\* the clone owns its entries: dropping it destructs exactly the copies it
\* made, each once, and the original still owns all of its entries
C30_Clone ==
    Cloned =>
        /\ ~it.copy.ub /\ ~it.copy.panic
        /\ it.copy.c.len = lru.len
        /\ \A k \in Keys :
              get_untouched(it.copy.c, k).res = get_untouched(lru, k).res
        /\ lru.cap >= 1 =>
              \A k \in Keys :
                  get_untouched(it.copy.c, k).res = Expected(k[1])
        /\ iter_slots(it.copy.c) = iter_slots(lru)
        /\ lru.cap >= 1 => RecencyOrds(it.copy.c) = promo
        /\ \A i \in OccupiedSlots(lru) : Rank(it.copy.c, i) = Rank(lru, i)
        /\ it.copy.c.root = lru.root
        /\ it.copy.c.lefts = lru.lefts
        /\ it.copy.c.rights = lru.rights
        /\ it.copy.c.parents = lru.parents
        /\ it.copy.c.rb_colors = lru.rb_colors
        /\ \A i \in Slots(lru) :
              /\ Times(it.copy.cloned, i) = IF Occupied(lru, i) THEN 1 ELSE 0
              /\ it.copy.c.keys[i] = lru.keys[i]
              /\ it.copy.c.values[i] = lru.values[i]
        /\ Len(it.copy.cloned) = lru.len
        /\ it.copy.c = clone(lru).c
        /\ it.copy.c = clone_to_alloc(lru).c
        /\ lru = it.pre
        /\ it.kind = "clone_dropped" =>
              /\ \A i \in Slots(lru) :
                    /\ Times(it.destructed, i) = Times(it.copy.cloned, i)
                    /\ Times(drop(lru), i) = IF Occupied(lru, i) THEN 1 ELSE 0
              /\ Len(it.destructed) = Len(it.copy.cloned)

\* the clone() of a cache of 3 that holds 2 entries, the more recently used
\* one having the smaller key, was dropped
C30_Witness ==
    /\ it.kind = "clone_dropped"
    /\ it.how = "clone"
    /\ lru.cap = 3
    /\ lru.len = 2
    /\ Cmp(lru.keys[lru.head], lru.keys[lru.tail]) = "Less"
    /\ lru.head > lru.tail

\* C31: clear() on a cache in any reachable state destructs every stored
\* key and value exactly once and no vacant cell, and leaves the cache in
\* the state of a freshly constructed one: len = 0, no key is found, and the
\* state is an initial state, so every later sequence of operations behaves
\* as on a new cache
C31_Clear ==
    /\ LastIs("clear") =>
          /\ \A i \in Slots(last.pre) :
                Times(last.destructed, i)
                    = IF Occupied(last.pre, i) THEN 1 ELSE 0
          /\ Len(last.destructed) = last.pre.len
          /\ lru = init(last.pre.cap)
          /\ len(lru) = 0
          /\ is_empty(lru)
          /\ OccupiedSlots(lru) = {}
          /\ \A k \in Keys :
                /\ get_untouched(lru, k).res = ResNone
                /\ get(lru, k).res = ResNone
                /\ remove(lru, k).res = ResNone
          /\ \A k \in Keys, v \in Values :
                insert(lru, k, v) = insert(init(lru.cap), k, v)
          /\ amap = [o \in 1..MaxKey |-> UninitV]
          /\ promo = <<>>
          /\ inserted = <<>>
    /\ lru.cap >= 1 =>
          /\ \A k \in Keys : get_untouched(lru, k).res = Expected(k[1])
          /\ RecencyOrds(lru) = promo

\* a full cache of 3 was cleared
C31_Witness ==
    /\ LastIs("clear")
    /\ last.pre.len = 3
    /\ last.pre.head # 0

\* C32 as stated: in every reachable state between public operations,
\* head = CAP if and only if len = 0
C32_HeadCapIffEmpty == (lru.head = lru.cap) <=> (lru.len = 0)

\* C32, amended: head = CAP implies len = 0, and while len > 0 head is the
\* slot of the most recently used entry; the converse fails: remove of the
\* only entry leaves head at the removed slot, an empty cache has
\* head = CAP only if nothing was inserted since it was constructed
C32_HeadWhenNotEmpty ==
    /\ lru.head = lru.cap => lru.len = 0
    /\ lru.len > 0 =>
          /\ lru.head < lru.cap
          /\ Occupied(lru, lru.head)
          /\ lru.prevs[lru.head] = lru.cap
          /\ lru.keys[lru.head][1] = promo[1]
    /\ (LastIs("remove") /\ last.res.kind = "Some" /\ last.pre.len = 1) =>
          /\ lru.len = 0
          /\ lru.head = last.pre.head
          /\ lru.head < lru.cap
    /\ (lru.len = 0 /\ lru.head = lru.cap) => lru = init(lru.cap)

\* the only entry was removed and head still names its slot
C32_Witness ==
    /\ LastIs("remove")
    /\ last.res.kind = "Some"
    /\ lru.len = 0
    /\ lru.head # lru.cap
    /\ lru.cap = 3

\* the slots met when following nexts from slot i until the sentinel CAP,
\* at most fuel of them
RECURSIVE Chain(_, _, _)
Chain(c, i, fuel) ==
    IF i = c.cap \/ i \notin DOMAIN c.nexts \/ fuel = 0 THEN <<>>
    ELSE <<i>> \o Chain(c, c.nexts[i], fuel - 1)

\* the whole list: from head, from tail when the cache is empty
WholeChain(c) ==
    Chain(c, IF c.len = 0 THEN c.tail ELSE c.head, c.cap + 1)

\* C33: after any sequence of public operations the recency list is one
\* cycle-free doubly-linked chain over all CAP slots: following nexts from
\* head (from tail when the cache is empty) visits every slot exactly once,
\* first the len occupied slots and then the CAP - len vacant ones, and
\* ends at CAP; prevs is the inverse of nexts and the first slot of the
\* chain has prevs = CAP
C33_RecencyChain ==
    /\ Len(WholeChain(lru)) = lru.cap
    /\ \A i \in Slots(lru) : Times(WholeChain(lru), i) = 1
    /\ \A j \in 1..Len(WholeChain(lru)) :
          Occupied(lru, WholeChain(lru)[j]) <=> j <= lru.len
    /\ \A a \in Slots(lru) : lru.nexts[a] \in Slots(lru) \cup {lru.cap}
    /\ \A b \in Slots(lru) : lru.prevs[b] \in Slots(lru) \cup {lru.cap}
    /\ \A a, b \in Slots(lru) : lru.nexts[a] = b <=> lru.prevs[b] = a
    /\ lru.cap >= 1 => lru.prevs[WholeChain(lru)[1]] = lru.cap
    /\ lru.cap >= 1 => lru.nexts[WholeChain(lru)[lru.cap]] = lru.cap

\* a removal from the middle of a full cache of 3 left a chain that is not
\* in slot order
C33_Witness ==
    /\ LastIs("remove")
    /\ last.res.kind = "Some"
    /\ last.pre.len = 3
    /\ lru.len = 2
    /\ \E j \in 1..2 : WholeChain(lru)[j] > WholeChain(lru)[j + 1]
    /\ Occupied(lru, 2)

\* C34: for CAP >= 1, in every reachable state tail < CAP; when len > 0
\* tail is the slot of the least recently used entry, the len-th slot from
\* head, and nexts[tail] is the first vacant slot, or CAP when the cache is
\* full; when len = 0 tail itself is the first vacant slot
C34_Tail ==
    lru.cap >= 1 =>
        /\ lru.tail < lru.cap
        /\ lru.tail \in Slots(lru)
        /\ lru.len > 0 =>
              /\ lru.tail = WholeChain(lru)[lru.len]
              /\ lru.tail = iter_slots(lru)[lru.len]
              /\ Occupied(lru, lru.tail)
              /\ lru.keys[lru.tail][1] = LastOr0(promo)
              /\ is_full(lru) => lru.nexts[lru.tail] = lru.cap
              /\ ~is_full(lru) =>
                    /\ lru.nexts[lru.tail] = WholeChain(lru)[lru.len + 1]
                    /\ ~Occupied(lru, lru.nexts[lru.tail])
        /\ lru.len = 0 =>
              /\ ~Occupied(lru, lru.tail)
              /\ lru.tail = WholeChain(lru)[1]
              /\ lru.prevs[lru.tail] = lru.cap

\* a lookup promoted the least recently used of two entries in a cache of
\* 3: tail moved to the other entry, a slot that is not the last occupied
\* one by index
C34_Witness ==
    /\ LastIs("get")
    /\ last.res.kind = "Some"
    /\ lru.cap = 3
    /\ lru.len = 2
    /\ last.pre.tail # lru.tail
    /\ lru.head = last.pre.tail
    /\ lru.nexts[lru.tail] = 2

\* the slots of the subtree at node n in order, left to right, to a depth of
\* at most fuel
RECURSIVE InOrder(_, _, _)
InOrder(c, n, fuel) ==
    IF n = c.cap \/ n \notin DOMAIN c.lefts \/ fuel = 0 THEN <<>>
    ELSE InOrder(c, c.lefts[n], fuel - 1) \o <<n>>
         \o InOrder(c, c.rights[n], fuel - 1)

\* the key index: the tree reachable from root, in order
KeyIndex(c) == InOrder(c, c.root, c.cap + 1)

\* C35: after any sequence of public operations the key index (the search
\* tree reachable from root) contains each occupied slot exactly once and no
\* vacant slot, and visiting it in order gives strictly increasing keys, so
\* no key is stored twice
C35_KeyIndex ==
    /\ Len(KeyIndex(lru)) = lru.len
    /\ \A i \in Slots(lru) :
          Times(KeyIndex(lru), i) = IF Occupied(lru, i) THEN 1 ELSE 0
    /\ \A j \in 1..(Len(KeyIndex(lru)) - 1) :
          Cmp(lru.keys[KeyIndex(lru)[j]], lru.keys[KeyIndex(lru)[j + 1]])
              = "Less"
    /\ \A i, j \in OccupiedSlots(lru) :
          i # j => Cmp(lru.keys[i], lru.keys[j]) # "Equal"
    /\ \A i \in OccupiedSlots(lru) : Rank(lru, i) <= Len(KeyIndex(lru))
    /\ \A i \in OccupiedSlots(lru) :
          Rank(lru, i) <= Len(KeyIndex(lru)) =>
              KeyIndex(lru)[Rank(lru, i)] = i
    /\ lru.len = 0 <=> lru.root = lru.cap

\* an evicting insert into a full cache of 3 whose new key is not the
\* largest and whose slot order differs from the key order
C35_Witness ==
    /\ LastIs("insert")
    /\ last.res.kind = "LruEvicted"
    /\ lru.len = 3
    /\ KeyIndex(lru) # <<0, 1, 2>>
    /\ lru.lefts[lru.root] # lru.cap
    /\ lru.rights[lru.root] # lru.cap
    /\ lru.root # last.pre.root

\* the black nodes, nil included, on every path from n to a nil link, or -1
\* if two paths differ
RECURSIVE BlackHeight(_, _, _)
BlackHeight(c, n, fuel) ==
    IF n = c.cap THEN 1
    ELSE IF fuel = 0 \/ n \notin Slots(c) THEN -1
    ELSE LET l == BlackHeight(c, c.lefts[n], fuel - 1)
             r == BlackHeight(c, c.rights[n], fuel - 1)
         IN  IF l = -1 \/ r = -1 \/ l # r THEN -1
             ELSE l + (IF c.rb_colors[n] = "Black" THEN 1 ELSE 0)

\* the colour of a link: nil is black
LinkColor(c, n) == IF n = c.cap THEN "Black" ELSE c.rb_colors[n]

\* node n and its children agree on who is whose parent, and are not both red
NodeValid(c, n) ==
    /\ c.lefts[n] # c.cap =>
          c.lefts[n] \in Slots(c) /\ c.parents[c.lefts[n]] = n
    /\ c.rights[n] # c.cap =>
          c.rights[n] \in Slots(c) /\ c.parents[c.rights[n]] = n
    /\ c.rb_colors[n] = "Red" =>
          /\ LinkColor(c, c.lefts[n]) = "Black"
          /\ LinkColor(c, c.rights[n]) = "Black"

\* the tree of c is a red-black tree
RbValid(c) ==
    /\ c.root # c.cap =>
          /\ c.root \in Slots(c)
          /\ c.rb_colors[c.root] = "Black"
          /\ c.parents[c.root] = c.cap
    /\ \A j \in 1..Len(KeyIndex(c)) : NodeValid(c, KeyIndex(c)[j])
    /\ BlackHeight(c, c.root, c.cap + 1) # -1

\* the tree of c holds exactly the slots that hold a key, in key order
TreeOnKeys(c) ==
    /\ Len(KeyIndex(c)) = Cardinality({i \in Slots(c) : c.keys[i] # UninitK})
    /\ \A j \in 1..Len(KeyIndex(c)) : c.keys[KeyIndex(c)[j]] # UninitK
    /\ \A j \in 1..(Len(KeyIndex(c)) - 1) :
          Cmp(c.keys[KeyIndex(c)[j]], c.keys[KeyIndex(c)[j + 1]]) = "Less"

\* C36: after any inserts, allocating or evicting, and removes the tree is a
\* red-black tree (black root, no red node with a red child, the same number
\* of black nodes on every path to a nil link, parents agreeing with lefts
\* and rights, the root's parent CAP), and remove_rb on any node of any
\* red-black tree leaves a red-black tree on exactly the remaining nodes
C36_RedBlack ==
    /\ ~lru.panicked
    /\ RbValid(lru)
    /\ TreeOnKeys(lru)

\* remove_rb took a black leaf out of a tree of black nodes only, with more
\* nodes than any cache of the other operations holds
C36_Witness ==
    /\ it.kind = "tree"
    /\ it.op = "remove_rb"
    /\ it.pre.len > MaxCap
    /\ \A i \in 0..(it.pre.len - 1) : it.pre.rb_colors[i] = "Black"
    /\ it.node # it.pre.root
    /\ it.pre.lefts[it.node] = MaxNode
    /\ it.pre.rights[it.node] = MaxNode
    /\ lru.len = it.pre.len - 1
    /\ RbValid(lru)

\* every key that pre and post both hold is in the same slot in both, the
\* stored key unchanged, and its value too unless the call was made with
\* that key (written)
SlotsKept(pre, post, written) ==
    \A i \in OccupiedSlots(pre) : \A j \in OccupiedSlots(post) :
        Cmp(pre.keys[i], post.keys[j]) = "Equal" =>
            /\ i = j
            /\ post.keys[j] = pre.keys[i]
            /\ Cmp(pre.keys[i], written) # "Equal" =>
                  post.values[j] = pre.values[i]

\* C37: an entry keeps its slot from its insertion until it is removed or
\* evicted: no call (get, get_mut, insert, remove, with their promotions,
\* evictions and rebalancing) and no insert_rb or remove_rb moves the key or
\* the value of an entry that stays to another slot
C37_SlotsDoNotMove ==
    /\ last.op # "idle" => SlotsKept(last.pre, lru, last.k)
    /\ (it.kind = "tree" /\ it.op # "built") =>
          SlotsKept(it.pre, lru, UninitK)

\* a promotion changed the head of a full cache of MaxCap entries whose tree
\* was reshaped (its root is no longer the first slot written), and every
\* entry is where it was
C37_Witness ==
    /\ last.op \in {"get", "get_mut", "insert"}
    /\ last.pre.len = MaxCap
    /\ lru.len = MaxCap
    /\ lru.head # last.pre.head
    /\ lru.keys = last.pre.keys
    /\ lru.lefts[lru.root] # lru.cap
    /\ lru.rights[lru.root] # lru.cap
    /\ lru.root # 0

\* the slot of c that holds a key equal to k, CAP if none does
SlotHolding(c, k) ==
    IF \E i \in OccupiedSlots(c) : Cmp(c.keys[i], k) = "Equal"
    THEN CHOOSE i \in OccupiedSlots(c) : Cmp(c.keys[i], k) = "Equal"
    ELSE c.cap

\* the first vacant slot: tail itself in an empty cache, nexts[tail]
\* otherwise (CAP in a full cache)
FirstVacant(c) == IF c.len = 0 THEN c.tail ELSE c.nexts[c.tail]

\* the keys c does not hold
AbsentKeys(c) == {k \in Keys : SlotHolding(c, k) = c.cap}

\* remove took the entry out of slot i of pre: i is the first vacant slot of
\* post, linked right after tail unless post is empty (then it is tail), its
\* successor is the slot that was the first vacant one, and an insert of any
\* new key writes into i
FreedFirst(pre, post, i) ==
    /\ FirstVacant(post) = i
    /\ post.len > 0 => post.nexts[post.tail] = i /\ post.prevs[i] = post.tail
    /\ post.len = 0 => post.tail = i
    /\ post.nexts[i] = pre.nexts[pre.tail]
    /\ \A k \in AbsentKeys(post) :
          SlotHolding(insert(post, k, DefaultValue).c, k) = i

\* C38: an insert of a new key into a cache that is not full writes into the
\* first vacant slot (tail if the cache is empty, nexts[tail] otherwise), an
\* evicting insert writes into the slot of the evicted LRU entry, and the
\* slot of a removed entry becomes the first vacant slot, right after tail
\* and before the slot that was first vacant, so that the next allocating
\* insert reuses it
C38_SlotChoice ==
    /\ (last.op = "insert" /\ last.pre.cap > 0
        /\ SlotHolding(last.pre, last.k) = last.pre.cap) =>
          /\ last.pre.len < last.pre.cap =>
                /\ last.res = ResNone
                /\ SlotHolding(lru, last.k) = FirstVacant(last.pre)
          /\ last.pre.len = last.pre.cap =>
                /\ last.res = LruEvicted(last.pre.keys[last.pre.tail],
                                         last.pre.values[last.pre.tail])
                /\ SlotHolding(lru, last.k) = last.pre.tail
    /\ (last.op = "remove" /\ last.res.kind = "Some") =>
          FreedFirst(last.pre, lru, SlotHolding(last.pre, last.k))

\* a remove freed a slot of a cache that had another vacant slot and another
\* entry, and the freed slot is not the one an insert would have taken before
C38_Witness ==
    /\ last.op = "remove"
    /\ last.res.kind = "Some"
    /\ last.pre.len = 2
    /\ last.pre.cap = MaxCap
    /\ FirstVacant(lru) = SlotHolding(last.pre, last.k)
    /\ FirstVacant(lru) # FirstVacant(last.pre)
    /\ lru.nexts[FirstVacant(lru)] = FirstVacant(last.pre)
    /\ SlotHolding(last.pre, last.k) # last.pre.tail

\* the positions of entries whose key an earlier position holds too
Repeats(entries) ==
    {b \in DOMAIN entries :
        \E a \in 1..(b - 1) : Cmp(entries[a][1], entries[b][1]) = "Equal"}

\* the least element of a non-empty set of numbers
Least(S) == CHOOSE x \in S : \A y \in S : x <= y

\* the keys of entries, as ordered, that occur more than once
DuplicatedOrds(entries) == {entries[b][1][1] : b \in Repeats(entries)}

\* C39 as stated: the key in DuplicateKeysError is the smallest key that
\* occurs more than once in the array, whatever the positions
C39_SmallestDuplicate ==
    (made.op = "try_from" /\ ~made.res.ok) =>
        made.res.err[1] = Least(DuplicatedOrds(made.entries))

\* C39, amended: the key in DuplicateKeysError is the one found first in
\* array order: with b the first position whose key an earlier position a
\* holds too, it is the key of the pair at a; it need not be the smallest
\* duplicated key
C39_FirstDuplicateInArrayOrder ==
    (made.op = "try_from" /\ ~made.res.ok) =>
        /\ Repeats(made.entries) # {}
        /\ \E a \in 1..(Least(Repeats(made.entries)) - 1) :
              /\ Cmp(made.entries[a][1],
                     made.entries[Least(Repeats(made.entries))][1]) = "Equal"
              /\ made.res.err = made.entries[a][1]

\* two keys are duplicated, the larger one is repeated first in the array
\* and it is the one reported
C39_Witness ==
    /\ made.op = "try_from"
    /\ ~made.res.ok
    /\ Cardinality(DuplicatedOrds(made.entries)) = 2
    /\ made.res.err[1] > Least(DuplicatedOrds(made.entries))
    /\ made.res.err = made.entries[1][1]
    /\ Least(Repeats(made.entries)) = MaxCap
    /\ made.entries[MaxCap + 1][1][1] = Least(DuplicatedOrds(made.entries))

\* more steps than any loop may take in c
TooMany(c) == c.cap + 1

\* the nodes find_in_bst compares k with, from curr on
RECURSIVE SearchSteps(_, _, _, _)
SearchSteps(c, k, curr, fuel) ==
    IF curr = c.cap THEN 0
    ELSE IF fuel = 0 THEN TooMany(c)
    ELSE IF Cmp(c.keys[curr], k) = "Equal" THEN 1
    ELSE 1 + SearchSteps(c, k,
                         IF Cmp(c.keys[curr], k) = "Less"
                         THEN c.rights[curr] ELSE c.lefts[curr],
                         fuel - 1)

RECURSIVE InsertFixups(_, _, _)

\* the turns of the loop of insert_rb after insert_rb_fixup returned f
InsertFixupsAfter(f, fuel) == 1 + InsertFixups(f.c, f.node, fuel)

\* the turns of the `while let Some(n) = node` loop of insert_rb
InsertFixups(c, node, fuel) ==
    IF node = NoNode THEN 0
    ELSE IF fuel = 0 THEN TooMany(c)
    ELSE InsertFixupsAfter(insert_rb_fixup(c, node), fuel - 1)

\* the turns of the loop of insert_rb(i, f) once key k is written to slot i
InsertRbSteps(c, i, f) ==
    InsertFixups(
        set_rb_color(insert_bst_node(c, i, f.index, f.dir), i, "Red"),
        i, c.cap + 1)

RECURSIVE RemoveFixups(_, _, _, _)

\* the turns of the loop of remove_rb after remove_rb_fixup returned f
RemoveFixupsAfter(f, fuel) == 1 + RemoveFixups(f.c, f.parent, f.dir, fuel)

\* the turns of the `while let Some(lmp)` loop of remove_rb
RemoveFixups(c, parent, parent_dir, fuel) ==
    IF parent = NoNode THEN 0
    ELSE IF fuel = 0 THEN TooMany(c)
    ELSE RemoveFixupsAfter(remove_rb_fixup(c, parent, parent_dir), fuel - 1)

\* the turns of the loop of remove_rb after remove_rbt_node returned r
RemoveRbSteps(r, cap) ==
    IF r.deleted_color = "Red" THEN 0
    ELSE RemoveFixups(r.c, r.parent, r.dir, cap + 1)

\* the left links find_leftmost follows from n
RECURSIVE LeftmostMoves(_, _, _)
LeftmostMoves(c, n, fuel) ==
    IF c.lefts[n] = c.cap THEN 0
    ELSE IF fuel = 0 THEN TooMany(c)
    ELSE 1 + LeftmostMoves(c, c.lefts[n], fuel - 1)

\* the parent links find_in_order_predecessor_ancestor follows
RECURSIVE AncestorMoves(_, _, _, _)
AncestorMoves(c, curr, parent, fuel) ==
    IF parent \notin DOMAIN c.rights THEN TooMany(c)
    ELSE IF c.rights[parent] = curr \/ parent = c.cap THEN 1
    ELSE IF fuel = 0 THEN TooMany(c)
    ELSE 1 + AncestorMoves(c, parent, c.parents[parent], fuel - 1)

\* the links one step of InOrderTraverser::next follows
NextMoves(tr, c) ==
    IF tr.state = "Left" \/ tr.current \notin DOMAIN c.rights THEN 0
    ELSE IF tr.state = "This"
    THEN IF c.rights[tr.current] = c.cap THEN 0
         ELSE 1 + LeftmostMoves(c, c.rights[tr.current], c.cap)
    ELSE 1

\* the links one step of InOrderTraverser::prev follows
PrevMoves(tr, c) ==
    IF tr.state = "This" THEN 0
    ELSE IF tr.state = "Right" /\ tr.current = c.cap THEN 1
    ELSE IF tr.current \notin DOMAIN c.rights THEN 0
    ELSE IF tr.state = "Right"
    THEN IF c.rights[tr.current] = c.cap THEN 0 ELSE 1
    ELSE IF c.lefts[tr.current] = c.cap
    THEN AncestorMoves(c, tr.current, c.parents[tr.current], c.cap)
    ELSE 1

\* the links the `while` loop of IterKeyOrderMut::next follows; fuel bounds
\* its turns
RECURSIVE NextLoopMoves(_, _, _)
NextLoopMoves(tv, c, fuel) ==
    IF tv.from_smallest.state = "Left" \/ tv.from_smallest.state = "Panic"
       \/ traverser_has_ended(tv)
    THEN 0
    ELSE IF fuel = 0 THEN TooMany(c)
    ELSE NextMoves(tv.from_smallest, c)
         + NextLoopMoves(advance_from_smallest(tv, c), c, fuel - 1)

\* the links one call of IterKeyOrderMut::next follows
NextCallMoves(t) ==
    IF traverser_has_ended(t.traverser) THEN 0
    ELSE NextMoves(t.traverser.from_smallest, t.const_lru)
         + NextLoopMoves(advance_from_smallest(t.traverser, t.const_lru),
                         t.const_lru, 3 * t.const_lru.cap + 3)

\* the links the `while` loop of IterKeyOrderMut::next_back follows, and the
\* retreat made once the entry is read
RECURSIVE NextBackLoopMoves(_, _, _)
NextBackLoopMoves(tv, c, fuel) ==
    IF tv.from_largest.state = "Panic" THEN 0
    ELSE IF tv.from_largest.state = "This" THEN PrevMoves(tv.from_largest, c)
    ELSE IF traverser_has_ended(tv) THEN 0
    ELSE IF fuel = 0 THEN TooMany(c)
    ELSE PrevMoves(tv.from_largest, c)
         + NextBackLoopMoves(retreat_from_largest(tv, c), c, fuel - 1)

\* the links one call of IterKeyOrderMut::next_back follows
NextBackCallMoves(t) ==
    NextBackLoopMoves(t.traverser, t.const_lru, 3 * t.const_lru.cap + 3)

\* a call of the iterator t follows CAP links at most and does not panic
CallBounded(t, r, moves) ==
    /\ moves <= t.const_lru.cap
    /\ r.res.kind # "Panic"

\* every call of next until None, calls calls at most, is bounded
RECURSIVE ForwardBounded(_, _)
ForwardBounded(t, calls) ==
    \/ traverser_has_ended(t.traverser)
    \/ /\ calls > 0
       /\ CallBounded(t, iter_key_order_mut_next(t), NextCallMoves(t))
       /\ ForwardBounded(iter_key_order_mut_next(t).t, calls - 1)

\* every call of next_back until None, calls calls at most, is bounded
RECURSIVE BackwardBounded(_, _)
BackwardBounded(t, calls) ==
    \/ iter_key_order_mut_next_back(t).res.kind = "None"
    \/ /\ calls > 0
       /\ CallBounded(t, iter_key_order_mut_next_back(t),
                      NextBackCallMoves(t))
       /\ BackwardBounded(iter_key_order_mut_next_back(t).t, calls - 1)

\* the keys a search is made with: those of the calls and of the hand-built
\* trees
WalkKeys == Keys \cup {NodeKey(i) : i \in 0..(MaxNode - 1)}

\* the search, the insertion and the removal of any key and the key-order
\* traversals of c finish within CAP steps each, and nothing is indexed at
\* CAP
LoopsBounded(c) ==
    /\ \A k \in WalkKeys :
          /\ SearchSteps(c, k, c.root, c.cap + 1) <= c.cap
          /\ find_in_bst(c, k).ok =>
                /\ RemoveRbSteps(remove_rbt_node(c, find_in_bst(c, k).index),
                                 c.cap) <= c.cap
                /\ ~remove_rb(c, find_in_bst(c, k).index).panicked
          /\ ~find_in_bst(c, k).ok =>
                \A i \in Slots(c) : c.keys[i] = UninitK =>
                    /\ InsertRbSteps(Store(c, "keys", i, k), i,
                                     find_in_bst(c, k)) <= c.cap
                    /\ ~insert_rb(Store(c, "keys", i, k), i,
                                  find_in_bst(c, k).index,
                                  find_in_bst(c, k).dir).panicked
    /\ ForwardBounded(iter_key_order_mut_new(c), c.cap)
    /\ BackwardBounded(iter_key_order_mut_new(c), c.cap)

\* C40: every operation terminates in every reachable state: the key search,
\* the insert fixup loop, the remove fixup loop and the successor and
\* predecessor walks of the key-order iterator each finish within CAP steps,
\* following no cycle and indexing no link array at the sentinel CAP
C40_Termination ==
    /\ ~lru.panicked
    /\ ((last.op = "idle" /\ it = NoIter) \/ it.kind = "tree") =>
          LoopsBounded(lru)
    /\ it.kind = "iter_key_order_mut" =>
          /\ it.res.kind # "Panic"
          /\ ~it.panicked =>
                /\ NextCallMoves(Borrowed(it.kind, it.cursors, lru))
                      <= lru.cap
                /\ NextBackCallMoves(Borrowed(it.kind, it.cursors, lru))
                      <= lru.cap

\* remove_rb took a leaf out of a tree of more than MaxCap nodes and its
\* fixup loop ran up to the root, more than two turns; in the tree it left a
\* search compares more than two nodes and the first next_back follows more
\* than one link
C40_Witness ==
    /\ it.kind = "tree"
    /\ it.op = "remove_rb"
    /\ it.pre.len > MaxCap
    /\ RemoveRbSteps(remove_rbt_node(it.pre, it.node), it.pre.cap) > 2
    /\ lru = [remove_rb(Store(Store(it.pre, "keys", it.node, UninitK),
                              "values", it.node, UninitV), it.node)
              EXCEPT !.len = @ - 1]
    /\ \E k \in WalkKeys : SearchSteps(lru, k, lru.root, lru.cap + 1) > 2
    /\ NextBackCallMoves(iter_key_order_mut_new(lru)) > 1
    /\ LoopsBounded(lru)

====
